---- MODULE Spec2Model ----
(***************************************************************************)
(* Inbound Shiprocket webhook pipeline (signature check, event             *)
(* classification, order reconciliation, stock ledger) and the outbound    *)
(* webhook retry queue of the order-management backend.                    *)
(*                                                                         *)
(* Every await of the handlers is a scheduling point: a delivery is a      *)
(* process whose pc names the await it is suspended at.                    *)
(***************************************************************************)
EXTENDS Integers, Sequences, FiniteSets, TLC

VARIABLES
  impl,        \* which order.service is deployed: "guarded" or "strict"
  products,    \* product collection: the _ids of the stored products
  stock,       \* productVariant collection: variant _id -> stock
  orders,      \* order collection, in insertion order; _id = position
  pc,          \* per delivery: the await it is suspended at
  payload,     \* per delivery: the parsed webhook payload
  ord,         \* per delivery: _id of the order it found or created
  idx,         \* per delivery: index of the next item of a stock loop
  tview,       \* per delivery: stock as seen by its open transaction
  twrites,     \* per delivery: variants written by its open transaction
  tstale,      \* per delivery: variants committed by others since its snapshot
  res,         \* per delivery: what handleOrderWebhook returned or threw
  deliveries,  \* number of webhook deliveries received so far
  initStock,   \* history: the stock before any delivery
  hist,        \* history, per external order id: deliveries and decrements
  mail,        \* per external order id: the confirmation email of its order
  lastReq,     \* the (rawBody, hmacHeader) of the latest delivery
  queue,       \* ShiprocketWebhookQueue.queue
  processing,  \* ShiprocketWebhookQueue.processing
  awaiting,    \* the await processQueue is suspended at, if any
  now,         \* the clock, in units of the 1000 ms poll sleep
  removed,     \* history: sends, failed sends and last outcome of the jobs
               \* that left the queue
  head,        \* history: sends and failed sends of the job at the head
  added,       \* history: number of addToQueue calls so far
  loops,       \* history: number of processQueue calls inside their loop
  sent,        \* history: the settled sends, oldest first
  corders,     \* order collection of the cart-based shop; _id = position
  shipments,   \* shipment collection; _id = position
  scall,       \* per caller: the ShipmentService call it is inside
  sres,        \* per caller: what its latest ShipmentService call gave
  wishlists,   \* wishlist collection; _id = position
  wcall,       \* per caller: the WishlistService call it is inside
  wres,        \* per caller: what its latest WishlistService call gave
  pstock,      \* product collection of the cart-based shop: the stock of
               \* each colour and size
  shopCart,    \* the customer's cart
  placed,      \* history, per order made from the cart: the stock before
  ocall,       \* per caller: the cart-based OrderService call it is inside
  ores         \* per caller: what its latest OrderService call gave

vars == <<impl, products, stock, orders, pc, payload, ord, idx, tview,
          twrites, tstale, res, deliveries, initStock, hist, mail, lastReq,
          queue, processing, awaiting, now, removed, head, added, loops,
          sent, corders, shipments, scall, sres, wishlists, wcall, wres,
          pstock, shopCart, placed, ocall, ores>>

orderVars == <<impl, products, stock, orders, pc, payload, ord, idx, tview,
               twrites, tstale, res, deliveries, initStock, hist, mail,
               corders, shipments, scall, sres, wishlists, wcall, wres,
               pstock, shopCart, placed, ocall, ores>>

\* the cart-based shop: its orders and their shipments
shopVars == <<corders, shipments, scall, sres>>

\* left alone by every step of the webhook pipeline
\* the wishlists of users and guest sessions
wishVars == <<wishlists, wcall, wres>>

\* the cart, the stock and the callers of the cart-based OrderService
cartVars == <<pstock, shopCart, placed, ocall, ores>>

fixedVars == <<impl, products, initStock, shopVars, wishVars, cartVars>>

queueVars == <<queue, processing, awaiting, now, removed, head, added, loops,
               sent>>

----------------------------------------------------------------------------
(* Bounds of the model *)

NumProcs == 2
MaxDeliveries == 2
MaxStock == 2

Procs == 1..NumProcs

----------------------------------------------------------------------------
(* Catalog: product variants and their parent products *)

undefined == "undefined"

Products == {"p1", "p2"}

Variants == {"v1", "v2"}

\* productVariantModel documents (stock is the variable above)
VariantDoc ==
  [v \in Variants |->
     IF v = "v1"
     THEN [shiprocketVariantId |-> "sv1", productId |-> "p1", price |-> 100]
     ELSE [shiprocketVariantId |-> "sv2", productId |-> "p2", price |-> 250]]

\* productVariantModel.findOne({ shiprocketVariantId })
findVariant(srId) ==
  IF \E v \in Variants : VariantDoc[v].shiprocketVariantId = srId
  THEN CHOOSE v \in Variants : VariantDoc[v].shiprocketVariantId = srId
  ELSE undefined

\* productModel.findById
findProduct(productId) ==
  IF productId \in products THEN productId ELSE undefined

----------------------------------------------------------------------------
(* Webhook payloads *)

OrderIds == {"o1", "o2"}

Item(v, q) == [variant_id |-> v, quantity |-> q]

\* the cart of each external order: a re-delivery carries the same cart
CartOf ==
  [o \in OrderIds |->
     IF o = "o1"
     THEN <<Item("sv1", 1)>>
     ELSE <<Item("sv1", 1), Item("sv2", 2)>>]

NoCart == <<>>

\* a money field the payload does not carry (undefined)
NoAmount == -1

Payload(o, st, ev, sh, c) ==
  [order_id |-> o, status |-> st, event |-> ev, shipment_status |-> sh,
   cart_data |-> c, email |-> undefined,
   total_amount_payable |-> NoAmount, subtotal_price |-> NoAmount,
   coupon_discount |-> NoAmount, prepaid_discount |-> NoAmount,
   shipping_charges |-> NoAmount]

\* the payload with the buyer's email address filled in
WithEmail(pl) == [pl EXCEPT !.email = "buyer@example.com"]

NoPayload == Payload(undefined, undefined, undefined, undefined, NoCart)

SuccessPayloads ==
  { Payload(o, st, undefined, undefined, CartOf[o]) :
      o \in OrderIds, st \in {"SUCCESS", "success"} }

CancelPayloads ==
  { Payload(o, "CANCELLED", undefined, undefined, NoCart) : o \in OrderIds }

IgnoredPayloads ==
  { Payload(o, st, undefined, undefined, NoCart) :
      o \in OrderIds, st \in {"INITIATED", undefined} }

LifecyclePayloads ==
  { Payload(o, "FAILED", undefined, undefined, NoCart) : o \in OrderIds }
  \cup
  { Payload(o, undefined, undefined, sh, NoCart) :
      o \in OrderIds, sh \in {"RTO", "delivered", "LOST"} }

ExplicitEventPayloads ==
  { Payload(o, "FAILED", "order_success", undefined, CartOf[o]) :
      o \in OrderIds }

\* the deliveries of the order-creation and cancellation flow
CorePayloads ==
  SuccessPayloads \cup CancelPayloads \cup IgnoredPayloads
    \cup ExplicitEventPayloads

Payloads == CorePayloads \cup LifecyclePayloads

\* String.prototype.toUpperCase on the strings of the model
toUpperCase(s) ==
  CASE s = "success" -> "SUCCESS"
    [] s = "delivered" -> "DELIVERED"
    [] s = "order_success" -> "ORDER_SUCCESS"
    [] s = "Failed" -> "FAILED"
    [] s = "cancelled" -> "CANCELLED"
    [] s = "Refund" -> "REFUND"
    [] OTHER -> s

\* JavaScript truthiness of an optional string field
Truthy(x) == x \notin {undefined, ""}

----------------------------------------------------------------------------
(* Signature Verifier *)

SecretKey == "secret"
OtherKey == "otherKey"

\* bytes of a SHA-256 digest
DigestLen == 32

\* a raw request body: JSON text; fmt is its byte-level layout (whitespace,
\* key order), which JSON.parse discards
RawBody(pl, f) == [json |-> pl, fmt |-> f]

Formats == {0, 1}

Bodies == { RawBody(pl, f) : pl \in Payloads, f \in Formats }

JSON_parse(rawBody) == rawBody.json

\* crypto.createHmac('sha256', key).update(data): the digest, symbolically
createHmac(key, data) == [key |-> key, data |-> data]

\* .digest('base64'): canonical padded base64 text of the 32 digest bytes
digestBase64(d) == [present |-> TRUE, bytes |-> d, n |-> DigestLen,
                    form |-> "padded"]

NoHeader == [present |-> FALSE, bytes |-> createHmac(undefined, undefined),
             n |-> 0, form |-> "padded"]

\* a base64 text of the first n bytes of digest d, padded or not
Base64Text(d, n, form) == [present |-> TRUE, bytes |-> d, n |-> n,
                           form |-> form]

\* Buffer.from(text, 'base64'): the decoded bytes; padding is not significant
BufferFromBase64(t) == [bytes |-> t.bytes, n |-> t.n]

\* crypto.timingSafeEqual: throws RangeError on buffers of different length
timingSafeEqual(a, b) ==
  IF a.n # b.n THEN "RangeError"
  ELSE IF a = b THEN "true" ELSE "false"

verifyIncomingHMAC_NoCompare(rawBody, receivedHmac) ==
  IF ~receivedHmac.present THEN "MissingHmac" ELSE "ok"

verifyIncomingHMAC_SignsParsed(rawBody, receivedHmac) ==
  IF ~receivedHmac.present THEN "MissingHmac"
  ELSE LET computedHmac ==
             digestBase64(createHmac(SecretKey,
                                     RawBody(JSON_parse(rawBody), 0)))
           isValid == timingSafeEqual(BufferFromBase64(computedHmac),
                                      BufferFromBase64(receivedHmac))
       IN  CASE isValid = "RangeError" -> "RangeError"
             [] isValid = "false" -> "InvalidSignature"
             [] OTHER -> "ok"

\* "ok", or the error it throws
verifyIncomingHMAC(rawBody, receivedHmac) ==
  IF ~receivedHmac.present THEN "MissingHmac"
  ELSE LET computedHmac == digestBase64(createHmac(SecretKey, rawBody))
           isValid == timingSafeEqual(BufferFromBase64(computedHmac),
                                      BufferFromBase64(receivedHmac))
       IN  CASE isValid = "RangeError" -> "RangeError"
             [] isValid = "false" -> "InvalidSignature"
             [] OTHER -> "ok"

\* the class of the value verifyIncomingHMAC throws: its two throw
\* statements construct a plain Error, and timingSafeEqual throws a
\* RangeError
ErrorClass(error) ==
  CASE error = "MissingHmac" -> "Error"
    [] error = "InvalidSignature" -> "Error"
    [] error = "RangeError" -> "RangeError"

\* every signature header over the bodies of B: either key, whole or cut
\* short by one byte, padded or not
AllHeaders(B) ==
  { NoHeader }
  \cup { Base64Text(createHmac(k, b), n, form) :
           k \in {SecretKey, OtherKey}, b \in B,
           n \in {DigestLen, DigestLen - 1}, form \in {"padded", "unpadded"} }

----------------------------------------------------------------------------
(* Event Classifier and Status Mapper *)

\* resolveEventType that looks at the status before the event field
resolveEventType_StatusFirst(pl) ==
  LET status == IF pl.status = undefined THEN undefined
                ELSE toUpperCase(pl.status)
  IN  CASE status = "SUCCESS" -> "ORDER_SUCCESS"
        [] status = "FAILED" -> "ORDER_FAILED"
        [] status = "CANCELLED" -> "ORDER_CANCELLED"
        [] status = "INITIATED" -> "ORDER_INITIATED"
        [] OTHER -> IF Truthy(pl.event) THEN toUpperCase(pl.event)
                    ELSE IF Truthy(pl.shipment_status)
                         THEN "ORDER_STATUS_UPDATE"
                         ELSE "UNKNOWN"

resolveEventType(pl) ==
  IF Truthy(pl.event) THEN toUpperCase(pl.event)
  ELSE LET status == IF pl.status = undefined THEN undefined
                     ELSE toUpperCase(pl.status)
       IN  CASE status = "SUCCESS" -> "ORDER_SUCCESS"
             [] status = "FAILED" -> "ORDER_FAILED"
             [] status = "CANCELLED" -> "ORDER_CANCELLED"
             [] status = "INITIATED" -> "ORDER_INITIATED"
             [] OTHER -> IF Truthy(pl.shipment_status)
                         THEN "ORDER_STATUS_UPDATE"
                         ELSE "UNKNOWN"

\* mapShipmentStatus that looks the status up as it came, not uppercased
mapShipmentStatus_CaseSensitive(status) ==
  CASE status = "RTO" -> "RETURNED"
    [] status = "DELIVERED" -> "DELIVERED"
    [] status = "CANCELLED" -> "CANCELLED"
    [] OTHER -> "PROCESSING"

mapShipmentStatus(status) ==
  LET s == IF status = undefined THEN undefined ELSE toUpperCase(status)
  IN  CASE s = "PICKED_UP" -> "PROCESSING"
        [] s = "IN_TRANSIT" -> "SHIPPED"
        [] s = "OUT_FOR_DELIVERY" -> "OUT_FOR_DELIVERY"
        [] s = "DELIVERED" -> "DELIVERED"
        [] s = "RTO" -> "RETURNED"
        [] s = "CANCELLED" -> "CANCELLED"
        [] s = "PICKUP_SCHEDULED" -> "PROCESSING"
        [] s = "MANIFESTED" -> "PROCESSING"
        [] s = "DISPATCHED" -> "SHIPPED"
        [] s = "RETURNED" -> "RETURNED"
        [] s = "RTO_DELIVERED" -> "RETURNED"
        [] OTHER -> "PROCESSING"

----------------------------------------------------------------------------
(* Order store *)

\* orderModel.findOne({ shiprocketOrderId }): _id of the first match, 0 if none
getOrderByShiprocketId(shiprocketOrderId) ==
  IF \E i \in 1..Len(orders) : orders[i].shiprocketOrderId = shiprocketOrderId
  THEN CHOOSE i \in 1..Len(orders) :
         /\ orders[i].shiprocketOrderId = shiprocketOrderId
         /\ \A j \in 1..(i - 1) :
              orders[j].shiprocketOrderId # shiprocketOrderId
  ELSE 0

\* the unique index on the external order identifier rejects the insert
DuplicateKey(shiprocketOrderId) ==
  \E i \in 1..Len(orders) : orders[i].shiprocketOrderId = shiprocketOrderId

\* Unresolved that does not look the parent product up
Unresolved_VariantOnly(cart) ==
  { i \in 1..Len(cart) : findVariant(cart[i].variant_id) = undefined }

\* cart items whose variant or parent product does not resolve
Unresolved(cart) ==
  { i \in 1..Len(cart) :
      \/ findVariant(cart[i].variant_id) = undefined
      \/ findProduct(VariantDoc[findVariant(cart[i].variant_id)].productId)
           = undefined }

\* the order items built from the cart (every item resolves)
orderItems(cart) ==
  [i \in 1..Len(cart) |->
     LET variant == findVariant(cart[i].variant_id)
     IN  [variantId |-> variant,
          quantity |-> cart[i].quantity,
          price |-> VariantDoc[variant].price,
          subtotal |-> VariantDoc[variant].price * cart[i].quantity]]

----------------------------------------------------------------------------
(* Results of handleOrderWebhook *)

Returned(kind, order) == [kind |-> kind, order |-> order, error |-> "none"]

Threw(error) == [kind |-> "error", order |-> 0, error |-> error]

NoResult == [kind |-> "none", order |-> 0, error |-> "none"]

ZeroView == [v \in Variants |-> 0]

\* the delivery of p ends with result r; its locals are dropped
Finish(p, r) ==
  /\ pc' = [pc EXCEPT ![p] = "done"]
  /\ res' = [res EXCEPT ![p] = r]
  /\ payload' = [payload EXCEPT ![p] = NoPayload]
  /\ ord' = [ord EXCEPT ![p] = 0]
  /\ idx' = [idx EXCEPT ![p] = 1]
  /\ tview' = [tview EXCEPT ![p] = ZeroView]
  /\ twrites' = [twrites EXCEPT ![p] = {}]

\* p suspends at await a, keeping its locals
Suspend(p, a) ==
  /\ pc' = [pc EXCEPT ![p] = a]
  /\ UNCHANGED <<res, payload, ord, idx, tview, twrites>>

----------------------------------------------------------------------------
(* Initial state *)

\* the order store and the deliveries, whatever the product collection holds
InitStore ==
  /\ impl \in {"guarded", "strict"}
  /\ stock \in [Variants -> 0..MaxStock]
  /\ orders = <<>>
  /\ pc = [p \in Procs |-> "idle"]
  /\ payload = [p \in Procs |-> NoPayload]
  /\ ord = [p \in Procs |-> 0]
  /\ idx = [p \in Procs |-> 1]
  /\ tview = [p \in Procs |-> ZeroView]
  /\ twrites = [p \in Procs |-> {}]
  /\ tstale = [p \in Procs |-> {}]
  /\ res = [p \in Procs |-> NoResult]
  /\ deliveries = 0
  /\ initStock = stock
  /\ hist = [o \in OrderIds |-> [success |-> 0, cancelled |-> 0, decs |-> 0]]
  /\ mail = [o \in OrderIds |-> "none"]

\* every variant's parent product is stored
InitOrders == InitStore /\ products = Products

InitQueue ==
  /\ queue = <<>>
  /\ processing = FALSE
  /\ awaiting = [what |-> "none", until |-> 0]
  /\ now = 0
  /\ removed = {}
  /\ head = [sends |-> 0, fails |-> 0]
  /\ added = 0
  /\ loops = 0
  /\ sent = <<>>

NoReq == [rawBody |-> RawBody(NoPayload, 0), hmacHeader |-> NoHeader]

NoWishCall ==
  [pc |-> "idle", userId |-> undefined, sessionId |-> undefined,
   productId |-> undefined, variantId |-> undefined, wl |-> 0, guest |-> 0,
   items |-> <<>>, n |-> 0]

\* no wishlist yet
InitWish ==
  /\ wishlists = <<>>
  /\ wcall = [p \in Procs |-> NoWishCall]
  /\ wres = [p \in Procs |-> NoResult]

\* the colours and sizes of product p1: product.colors[].sizeStock[]
Skus == {"p1/red/M", "p1/red/L"}

NoCartCall ==
  [pc |-> "idle", arg |-> 0, items |-> <<>>, idx |-> 0, seen |-> 0, n |-> 0]

EmptyCart == [items |-> <<>>, isActive |-> FALSE]

\* no cart, nothing in stock
InitCart ==
  /\ pstock = [k \in Skus |-> 0]
  /\ shopCart = EmptyCart
  /\ placed = <<>>
  /\ ocall = [p \in Procs |-> NoCartCall]
  /\ ores = [p \in Procs |-> NoResult]

\* no order, no shipment
InitShipping ==
  /\ corders = <<>>
  /\ shipments = <<>>
  /\ scall = [p \in Procs |-> [pc |-> "idle", arg |-> 0, ship |-> 0,
                               seen |-> FALSE, n |-> 0]]
  /\ sres = [p \in Procs |-> NoResult]

\* the cart-based shop before any order
InitShop ==
  /\ InitWish
  /\ InitCart
  /\ InitShipping

Init == InitOrders /\ InitQueue /\ lastReq = NoReq /\ InitShop

----------------------------------------------------------------------------
(* ShiprocketWebhookService.handleOrderWebhook, up to its first await *)

\* createOrderFromWebhook up to its first await: the status check
createOrderFromWebhook(p, pl) ==
  IF pl.status # "SUCCESS"
  THEN IF impl = "guarded"
       THEN Finish(p, Returned("success", 0))
       ELSE Finish(p, Threw("BadRequestError"))
  ELSE /\ pc' = [pc EXCEPT ![p] = "lookup"]
       /\ payload' = [payload EXCEPT ![p] = pl]
       /\ UNCHANGED <<res, ord, idx, tview, twrites>>

\* the other handlers up to their first await: getOrderByShiprocketId
StartHandler(p, pl, a) ==
  /\ pc' = [pc EXCEPT ![p] = a]
  /\ payload' = [payload EXCEPT ![p] = pl]
  /\ UNCHANGED <<res, ord, idx, tview, twrites>>

\* history of the deliveries that reach a handler
Recorded(pl, eventType) ==
  IF eventType = "ORDER_SUCCESS" /\ pl.status = "SUCCESS"
  THEN [hist EXCEPT ![pl.order_id].success = @ + 1]
  ELSE IF eventType = "ORDER_CANCELLED"
       THEN [hist EXCEPT ![pl.order_id].cancelled = @ + 1]
       ELSE hist

\* handleOrderWebhook whose default branch fails instead of acknowledging
handleOrderWebhook_DefaultThrows(p, rawBody, hmacHeader) ==
  /\ pc[p] \in {"idle", "done"}
  /\ deliveries < MaxDeliveries
  /\ deliveries' = deliveries + 1
  /\ UNCHANGED <<fixedVars, mail, stock, orders, tstale>>
  /\ LET verdict == verifyIncomingHMAC(rawBody, hmacHeader)
     IN  IF verdict # "ok"
         THEN Finish(p, Threw(verdict)) /\ UNCHANGED hist
         ELSE LET pl == JSON_parse(rawBody)
                  eventType == resolveEventType(pl)
              IN  /\ hist' = Recorded(pl, eventType)
                  /\ CASE eventType = "ORDER_SUCCESS" ->
                             createOrderFromWebhook(p, pl)
                        [] eventType = "ORDER_FAILED" ->
                             StartHandler(p, pl, "failedLookup")
                        [] eventType = "ORDER_CANCELLED" ->
                             StartHandler(p, pl, "cancelLookup")
                        [] eventType = "ORDER_STATUS_UPDATE" ->
                             StartHandler(p, pl, "statusLookup")
                        [] eventType = "ORDER_INITIATED" ->
                             Finish(p, Returned("acknowledged", 0))
                        [] OTHER ->
                             Finish(p, Threw("BadRequestError"))

handleOrderWebhook(p, rawBody, hmacHeader) ==
  /\ pc[p] \in {"idle", "done"}
  /\ deliveries < MaxDeliveries
  /\ deliveries' = deliveries + 1
  /\ UNCHANGED <<fixedVars, mail, stock, orders, tstale>>
  /\ LET verdict == verifyIncomingHMAC(rawBody, hmacHeader)
     IN  IF verdict # "ok"
         THEN Finish(p, Threw(verdict)) /\ UNCHANGED hist
         ELSE LET pl == JSON_parse(rawBody)
                  eventType == resolveEventType(pl)
              IN  /\ hist' = Recorded(pl, eventType)
                  /\ CASE eventType = "ORDER_SUCCESS" ->
                             createOrderFromWebhook(p, pl)
                        [] eventType = "ORDER_FAILED" ->
                             StartHandler(p, pl, "failedLookup")
                        [] eventType = "ORDER_CANCELLED" ->
                             StartHandler(p, pl, "cancelLookup")
                        [] eventType = "ORDER_STATUS_UPDATE" ->
                             StartHandler(p, pl, "statusLookup")
                        [] eventType = "ORDER_INITIATED" ->
                             Finish(p, Returned("acknowledged", 0))
                        [] OTHER ->
                             Finish(p, Returned("ignored", 0))

----------------------------------------------------------------------------
(* OrderService.createOrderFromWebhook after the status check *)

\* LookupOrder without the idempotency check
LookupOrder_NoIdempotency(p) ==
  /\ pc[p] = "lookup"
  /\ UNCHANGED <<fixedVars, mail, stock, orders, tstale, deliveries, hist>>
  /\ IF Unresolved(payload[p].cart_data) # {}
     THEN Finish(p, Threw("NotFoundError"))
     ELSE Suspend(p, "create")

\* await getOrderByShiprocketId, then generateOrderNumber and the item
\* resolution (reads of the catalog only)
LookupOrder(p) ==
  /\ pc[p] = "lookup"
  /\ UNCHANGED <<fixedVars, mail, stock, orders, tstale, deliveries, hist>>
  /\ LET existingOrder == getOrderByShiprocketId(payload[p].order_id)
     IN  IF existingOrder # 0
         THEN Finish(p, Returned("success", existingOrder))
         ELSE IF Unresolved(payload[p].cart_data) # {}
              THEN Finish(p, Threw("NotFoundError"))
              ELSE Suspend(p, "create")

RECURSIVE SumSubtotals(_, _)
\* orderItems.reduce((sum, item) => sum + item.subtotal, 0), from item i on
SumSubtotals(items, i) ==
  IF i > Len(items) THEN 0
  ELSE items[i].subtotal + SumSubtotals(items, i + 1)

\* a ?? b on money fields
Nullish(a, b) == IF a = NoAmount THEN b ELSE a

\* a || b on money fields: 0 is falsy
OrElse(a, b) == IF a = NoAmount \/ a = 0 THEN b ELSE a

\* the pricing object of the order: the guarded service computes the total
\* the provider did not send, the strict one stores what the provider sent
pricing(pl) ==
  IF impl = "guarded"
  THEN LET subtotal == Nullish(pl.subtotal_price,
                               SumSubtotals(orderItems(pl.cart_data), 1))
           discount == OrElse(pl.coupon_discount, 0)
           prepaidDiscount == OrElse(pl.prepaid_discount, 0)
           shippingCharges == OrElse(pl.shipping_charges, 0)
           computedTotal ==
             subtotal - discount - prepaidDiscount + shippingCharges + 0
       IN  [subtotal |-> subtotal, discount |-> discount,
            prepaidDiscount |-> prepaidDiscount,
            shippingCharges |-> shippingCharges, tax |-> 0,
            total |-> Nullish(pl.total_amount_payable, computedTotal)]
  ELSE [subtotal |-> OrElse(pl.subtotal_price,
                            SumSubtotals(orderItems(pl.cart_data), 1)),
        discount |-> OrElse(pl.coupon_discount, 0),
        prepaidDiscount |-> OrElse(pl.prepaid_discount, 0),
        shippingCharges |-> OrElse(pl.shipping_charges, 0),
        tax |-> 0,
        total |-> pl.total_amount_payable]

\* NewOrder that leaves orderStatus to the schema default
NewOrder_DefaultStatus(pl) ==
  [shiprocketOrderId |-> pl.order_id,
   items |-> orderItems(pl.cart_data),
   orderStatus |-> "CREATED",
   paymentStatus |-> "PENDING",
   pricing |-> pricing(pl)]

NewOrder(pl) ==
  [shiprocketOrderId |-> pl.order_id,
   items |-> orderItems(pl.cart_data),
   orderStatus |-> "CONFIRMED",
   paymentStatus |-> "PENDING",
   pricing |-> pricing(pl)]

\* this.updateStock of the deployed service: the session transaction of the
\* guarded one, the plain bulkWrite of the strict one
updateStockEntry == IF impl = "guarded" THEN "stock" ELSE "bulk"

\* CreateOrder that swallows the duplicate-key error and carries on with the
\* order already stored
CreateOrder_IgnoresDuplicate(p) ==
  /\ pc[p] = "create"
  /\ UNCHANGED <<fixedVars, mail, stock, tstale, deliveries, hist>>
  /\ orders' = IF DuplicateKey(payload[p].order_id) THEN orders
               ELSE Append(orders, NewOrder(payload[p]))
  /\ pc' = [pc EXCEPT ![p] = updateStockEntry]
  /\ ord' = [ord EXCEPT
               ![p] = IF DuplicateKey(payload[p].order_id)
                      THEN getOrderByShiprocketId(payload[p].order_id)
                      ELSE Len(orders) + 1]
  /\ idx' = [idx EXCEPT ![p] = 1]
  /\ UNCHANGED <<res, payload, tview, twrites>>

\* await this._orderRepository.createOrder(...)
CreateOrder(p) ==
  /\ pc[p] = "create"
  /\ UNCHANGED <<fixedVars, mail, stock, tstale, deliveries, hist>>
  /\ IF DuplicateKey(payload[p].order_id)
     THEN /\ Finish(p, Threw("DuplicateKey"))
          /\ UNCHANGED orders
     ELSE /\ orders' = Append(orders, NewOrder(payload[p]))
          /\ pc' = [pc EXCEPT ![p] = updateStockEntry]
          /\ ord' = [ord EXCEPT ![p] = Len(orders) + 1]
          /\ idx' = [idx EXCEPT ![p] = 1]
          /\ UNCHANGED <<res, payload, tview, twrites>>

----------------------------------------------------------------------------
(* Stock Ledger *)

\* q has an open session transaction that has run an operation: its snapshot
\* is taken and it may hold uncommitted writes
TxnOpen(q) == pc[q] = "stock" /\ idx[q] > 1

\* variant v carries an uncommitted write of a transaction other than p's
Locked(p, v) == \E q \in Procs \ {p} : TxnOpen(q) /\ v \in twrites[q]

\* p ends its transaction (if any) having committed writes to W: the open
\* transactions of the others have W changed under their snapshot
MarkStale(p, W) ==
  tstale' = [q \in Procs |->
               IF q = p THEN {}
               ELSE IF TxnOpen(q) THEN tstale[q] \cup W ELSE tstale[q]]

\* UpdateOneInSession without the { session } option: the write is applied
\* to the collection at once
UpdateOneInSession_NoSession(p) ==
  /\ pc[p] = "stock"
  /\ idx[p] <= Len(payload[p].cart_data)
  /\ UNCHANGED <<fixedVars, mail, orders, deliveries, hist>>
  /\ LET item == orderItems(payload[p].cart_data)[idx[p]]
         v == item.variantId
     IN  IF stock[v] < item.quantity
         THEN /\ Finish(p, Threw("InsufficientStock"))
              /\ MarkStale(p, {})
              /\ UNCHANGED stock
         ELSE /\ stock' = [stock EXCEPT ![v] = stock[v] - item.quantity]
              /\ tview' = [tview EXCEPT ![p] = stock']
              /\ idx' = [idx EXCEPT ![p] = idx[p] + 1]
              /\ UNCHANGED <<pc, payload, ord, res, twrites, tstale>>

\* updateStock (guarded): one updateOne({_id, stock >= quantity},
\* {$inc: -quantity}, {session}) of the loop; a failed match, or a write
\* conflict, throws and aborts the transaction
UpdateOneInSession(p) ==
  /\ pc[p] = "stock"
  /\ idx[p] <= Len(payload[p].cart_data)
  /\ UNCHANGED <<fixedVars, mail, stock, orders, deliveries, hist>>
  /\ LET item == orderItems(payload[p].cart_data)[idx[p]]
         v == item.variantId
         view == IF idx[p] = 1 THEN stock ELSE tview[p]
         stale == IF idx[p] = 1 THEN {} ELSE tstale[p]
     IN  IF view[v] < item.quantity
         THEN /\ Finish(p, Threw("InsufficientStock"))
              /\ MarkStale(p, {})
         ELSE IF v \in stale \/ Locked(p, v)
              THEN /\ Finish(p, Threw("WriteConflict"))
                   /\ MarkStale(p, {})
              ELSE /\ tview' = [tview EXCEPT
                                  ![p] = [view EXCEPT
                                            ![v] = view[v] - item.quantity]]
                   /\ twrites' = [twrites EXCEPT ![p] = twrites[p] \cup {v}]
                   /\ idx' = [idx EXCEPT ![p] = idx[p] + 1]
                   /\ UNCHANGED <<pc, payload, ord, res, tstale>>

\* updateStock (guarded): await session.commitTransaction(); then the
\* confirmation email, if there is a recipient, is started and not awaited,
\* and the order is returned
CommitTransaction(p) ==
  /\ pc[p] = "stock"
  /\ idx[p] > Len(payload[p].cart_data)
  /\ stock' = [v \in Variants |->
                 IF v \in twrites[p] THEN tview[p][v] ELSE stock[v]]
  /\ MarkStale(p, twrites[p])
  /\ hist' = [hist EXCEPT ![payload[p].order_id].decs = @ + 1]
  /\ mail' = IF Truthy(payload[p].email)
             THEN [mail EXCEPT ![payload[p].order_id] = "pending"]
             ELSE mail
  /\ Finish(p, Returned("success", ord[p]))
  /\ UNCHANGED <<fixedVars, orders, deliveries>>

\* one { updateOne: { filter: {_id}, update: { $inc: { stock: d } } } } of a
\* bulkWrite outside any transaction; it waits for a transaction holding
\* the document
IncStock(p, v, d) ==
  /\ ~Locked(p, v)
  /\ stock' = [stock EXCEPT ![v] = stock[v] + d]
  /\ MarkStale(p, {v})

\* updateStock (strict): the next operation of bulkWrite; after the last one
\* the confirmation email, if there is a recipient, is sent and awaited, and
\* otherwise the order is returned
BulkDecrement(p) ==
  /\ pc[p] = "bulk"
  /\ idx[p] <= Len(payload[p].cart_data)
  /\ LET item == orderItems(payload[p].cart_data)[idx[p]]
     IN  /\ IncStock(p, item.variantId, 0 - item.quantity)
         /\ IF idx[p] = Len(payload[p].cart_data)
            THEN /\ hist' = [hist EXCEPT ![payload[p].order_id].decs = @ + 1]
                 /\ IF Truthy(payload[p].email)
                    THEN /\ mail' = [mail EXCEPT
                                       ![payload[p].order_id] = "pending"]
                         /\ Suspend(p, "email")
                    ELSE /\ Finish(p, Returned("success", ord[p]))
                         /\ UNCHANGED mail
            ELSE /\ idx' = [idx EXCEPT ![p] = idx[p] + 1]
                 /\ UNCHANGED <<pc, payload, ord, res, tview, twrites, hist,
                                mail>>
  /\ UNCHANGED <<fixedVars, orders, deliveries>>

----------------------------------------------------------------------------
(* Confirmation email *)

MailOutcomes == {"sent", "failed"}

\* sendOrderConfirmationEmail of the order of o settles: mailService.sendEmail
\* resolved, or it rejected and the catch logged the error; a call that
\* awaits it goes on to return the order
sendOrderConfirmationEmail(o, outcome) ==
  /\ mail[o] = "pending"
  /\ mail' = [mail EXCEPT ![o] = outcome]
  /\ IF \E p \in Procs : pc[p] = "email" /\ payload[p].order_id = o
     THEN LET p == CHOOSE q \in Procs :
                     pc[q] = "email" /\ payload[q].order_id = o
          IN  Finish(p, Returned("success", ord[p]))
     ELSE UNCHANGED <<pc, res, payload, ord, idx, tview, twrites>>
  /\ UNCHANGED <<fixedVars, stock, orders, tstale, deliveries, hist>>

----------------------------------------------------------------------------
(* ORDER_CANCELLED: handleOrderCancelled, cancelOrder, restoreStock *)

CancelLookup(p) ==
  /\ pc[p] = "cancelLookup"
  /\ UNCHANGED <<fixedVars, mail, stock, orders, tstale, deliveries, hist>>
  /\ LET order == getOrderByShiprocketId(payload[p].order_id)
     IN  IF order = 0
         THEN Finish(p, Returned("acknowledged", 0))
         ELSE /\ pc' = [pc EXCEPT ![p] = "cancelUpdate"]
              /\ ord' = [ord EXCEPT ![p] = order]
              /\ UNCHANGED <<res, payload, idx, tview, twrites>>

\* OrderRepository.cancelOrder: findByIdAndUpdate, whatever the status was
cancelOrder(order) ==
  [order EXCEPT !.orderStatus = "CANCELLED", !.paymentStatus = "REFUNDED"]

CancelUpdate(p) ==
  /\ pc[p] = "cancelUpdate"
  /\ orders' = [orders EXCEPT ![ord[p]] = cancelOrder(orders[ord[p]])]
  /\ UNCHANGED <<fixedVars, mail, stock, tstale, deliveries, hist>>
  /\ IF Len(orders[ord[p]].items) = 0
     THEN Finish(p, Returned("success", 0))
     ELSE /\ pc' = [pc EXCEPT ![p] = "restore"]
          /\ idx' = [idx EXCEPT ![p] = 1]
          /\ UNCHANGED <<res, payload, ord, tview, twrites>>

\* restoreStock: the next operation of bulkWrite
RestoreStock(p) ==
  /\ pc[p] = "restore"
  /\ idx[p] <= Len(orders[ord[p]].items)
  /\ LET item == orders[ord[p]].items[idx[p]]
     IN  /\ IncStock(p, item.variantId, item.quantity)
         /\ IF idx[p] = Len(orders[ord[p]].items)
            THEN Finish(p, Returned("success", 0))
            ELSE /\ idx' = [idx EXCEPT ![p] = idx[p] + 1]
                 /\ UNCHANGED <<pc, payload, ord, res, tview, twrites>>
  /\ UNCHANGED <<fixedVars, mail, orders, deliveries, hist>>

----------------------------------------------------------------------------
(* ORDER_FAILED and ORDER_STATUS_UPDATE *)

FailedLookup(p) ==
  /\ pc[p] = "failedLookup"
  /\ UNCHANGED <<fixedVars, mail, stock, orders, tstale, deliveries, hist>>
  /\ LET order == getOrderByShiprocketId(payload[p].order_id)
     IN  IF order = 0
         THEN Finish(p, Returned("acknowledged", 0))
         ELSE /\ pc' = [pc EXCEPT ![p] = "failedUpdate"]
              /\ ord' = [ord EXCEPT ![p] = order]
              /\ UNCHANGED <<res, payload, idx, tview, twrites>>

\* updatePaymentStatus({ orderId, paymentStatus: 'FAILED' })
FailedUpdate(p) ==
  /\ pc[p] = "failedUpdate"
  /\ orders' = [orders EXCEPT ![ord[p]].paymentStatus = "FAILED"]
  /\ Finish(p, Returned("success", 0))
  /\ UNCHANGED <<fixedVars, mail, stock, tstale, deliveries, hist>>

StatusLookup(p) ==
  /\ pc[p] = "statusLookup"
  /\ UNCHANGED <<fixedVars, mail, stock, orders, tstale, deliveries, hist>>
  /\ LET order == getOrderByShiprocketId(payload[p].order_id)
     IN  IF order = 0
         THEN Finish(p, Returned("acknowledged", 0))
         ELSE /\ pc' = [pc EXCEPT ![p] = "statusUpdate"]
              /\ ord' = [ord EXCEPT ![p] = order]
              /\ UNCHANGED <<res, payload, idx, tview, twrites>>

\* updateOrderStatus({ orderId, orderStatus: mapShipmentStatus(...) })
StatusUpdate(p) ==
  /\ pc[p] = "statusUpdate"
  /\ orders' = [orders EXCEPT ![ord[p]].orderStatus =
                  mapShipmentStatus(payload[p].shipment_status)]
  /\ Finish(p, Returned("success", 0))
  /\ UNCHANGED <<fixedVars, mail, stock, tstale, deliveries, hist>>

----------------------------------------------------------------------------
(* The inbound pipeline *)

\* the bodies and headers the provider (or anyone) sends
SpecBodies == { RawBody(pl, 0) : pl \in CorePayloads }

SpecHeaders(b) ==
  { NoHeader,
    digestBase64(createHmac(SecretKey, b)),
    digestBase64(createHmac(OtherKey, b)) }

Receive(p) ==
  \E b \in SpecBodies : \E h \in SpecHeaders(b) : handleOrderWebhook(p, b, h)

Step(p) ==
  \/ LookupOrder(p)
  \/ CreateOrder(p)
  \/ UpdateOneInSession(p)
  \/ CommitTransaction(p)
  \/ BulkDecrement(p)
  \/ CancelLookup(p)
  \/ CancelUpdate(p)
  \/ RestoreStock(p)

Next ==
  \E p \in Procs :
    (Receive(p) \/ Step(p)) /\ UNCHANGED <<lastReq, queueVars>>

Spec == Init /\ [][Next]_vars

----------------------------------------------------------------------------
(* The signature check on its own: one delivery at a time, any body with any
   header, the request kept in lastReq *)

AuthPayloads ==
  { Payload("o1", "SUCCESS", undefined, undefined, CartOf["o1"]),
    Payload("o1", "CANCELLED", undefined, undefined, NoCart) }

AuthBodies == { RawBody(pl, f) : pl \in AuthPayloads, f \in Formats }

AuthNext ==
  /\ \/ \E b \in AuthBodies : \E h \in AllHeaders(AuthBodies) :
          /\ handleOrderWebhook(1, b, h)
          /\ lastReq' = [rawBody |-> b, hmacHeader |-> h]
     \/ Step(1) /\ UNCHANGED lastReq
  /\ UNCHANGED queueVars

AuthSpec == Init /\ [][AuthNext]_vars

----------------------------------------------------------------------------
(* The order lifecycle: signed deliveries of every event type, one at a time,
   and direct calls of OrderService.cancelOrder *)

MaxCancels == 2

\* an ORDER_STATUS_UPDATE event that carries no shipment_status
BareStatusPayloads ==
  { Payload(o, undefined, "ORDER_STATUS_UPDATE", undefined, NoCart) :
      o \in OrderIds }

LifecycleBodies ==
  { RawBody(pl, 0) :
      pl \in { q \in SuccessPayloads : q.status = "SUCCESS" }
               \cup CancelPayloads \cup LifecyclePayloads
               \cup BareStatusPayloads }

\* orderService.cancelOrder({ orderId, ... }) of the cancel endpoint, on a
\* stored order
CallCancelOrder(p) ==
  /\ pc[p] \in {"idle", "done"}
  /\ \E k \in 1..Len(orders) :
       /\ hist[orders[k].shiprocketOrderId].cancelled < MaxCancels
       /\ hist' = [hist EXCEPT ![orders[k].shiprocketOrderId].cancelled = @ + 1]
       /\ pc' = [pc EXCEPT ![p] = "cancelUpdate"]
       /\ ord' = [ord EXCEPT ![p] = k]
  /\ UNCHANGED <<fixedVars, mail, stock, orders, tstale, deliveries, res,
                 payload, idx, tview, twrites>>

LifecycleNext ==
  /\ \/ \E b \in LifecycleBodies :
          handleOrderWebhook(1, b, digestBase64(createHmac(SecretKey, b)))
     \/ Step(1)
     \/ FailedLookup(1)
     \/ FailedUpdate(1)
     \/ StatusLookup(1)
     \/ StatusUpdate(1)
     \/ CallCancelOrder(1)
  /\ UNCHANGED <<lastReq, queueVars>>

LifecycleSpec == Init /\ [][LifecycleNext]_vars

----------------------------------------------------------------------------
(* Acknowledgement of signed deliveries, one at a time: the order-creation
   and cancellation flow and the events no handler exists for, the request
   kept in lastReq *)

\* an event kind outside the handled ones, on a payload that otherwise looks
\* like a success webhook
OtherEventPayloads ==
  { Payload(o, "SUCCESS", "Refund", undefined, CartOf[o]) : o \in OrderIds }

AckBodies == { RawBody(pl, 0) : pl \in CorePayloads \cup OtherEventPayloads }

AckNext ==
  /\ \/ \E b \in AckBodies :
          LET h == digestBase64(createHmac(SecretKey, b))
          IN  /\ handleOrderWebhook(1, b, h)
              /\ lastReq' = [rawBody |-> b, hmacHeader |-> h]
     \/ Step(1) /\ UNCHANGED lastReq
  /\ UNCHANGED queueVars

AckSpec == Init /\ [][AckNext]_vars

----------------------------------------------------------------------------
(* Item resolution: success webhooks whose carts may name a variant the
   catalog does not have, over a product collection that may have lost a
   parent product *)

MaxCart == 2

ResolveItems == { Item(v, 1) : v \in {"sv1", "sv2", "sv9"} }

RECURSIVE CartsOfLen(_)
CartsOfLen(n) ==
  IF n = 0 THEN { <<>> }
  ELSE { Append(c, i) : c \in CartsOfLen(n - 1), i \in ResolveItems }

ResolveCarts == UNION { CartsOfLen(n) : n \in 1..MaxCart }

ResolveBodies ==
  { RawBody(Payload(o, "SUCCESS", undefined, undefined, c), 0) :
      o \in OrderIds, c \in ResolveCarts }

ResolveInit ==
  /\ InitStore
  /\ stock = [v \in Variants |-> MaxStock]
  /\ products \in SUBSET Products
  /\ InitQueue
  /\ InitShop
  /\ lastReq = NoReq

ResolveNext ==
  /\ \/ \E b \in ResolveBodies :
          LET h == digestBase64(createHmac(SecretKey, b))
          IN  /\ handleOrderWebhook(1, b, h)
              /\ lastReq' = [rawBody |-> b, hmacHeader |-> h]
     \/ Step(1) /\ UNCHANGED lastReq
  /\ UNCHANGED queueVars

ResolveSpec == ResolveInit /\ [][ResolveNext]_vars

----------------------------------------------------------------------------
(* Order creation with the confirmation email: signed success webhooks, with
   and without a recipient address, one at a time, and the mail service
   settling each send as it likes *)

EmailBodies ==
  { RawBody(pl, 0) :
      pl \in { q \in SuccessPayloads : q.status = "SUCCESS" }
               \cup { WithEmail(q) : q \in SuccessPayloads } }

EmailNext ==
  /\ \/ \E b \in EmailBodies :
          handleOrderWebhook(1, b, digestBase64(createHmac(SecretKey, b)))
     \/ Step(1)
     \/ \E o \in OrderIds : \E outcome \in MailOutcomes :
          sendOrderConfirmationEmail(o, outcome)
  /\ UNCHANGED <<lastReq, queueVars>>

EmailSpec == Init /\ [][EmailNext]_vars

----------------------------------------------------------------------------
(* Pricing: signed success webhooks carrying every mix of supplied and
   absent money fields, one at a time *)

WithPricing(pl, total, subtotal, coupon, prepaid, shipping) ==
  [pl EXCEPT !.total_amount_payable = total, !.subtotal_price = subtotal,
             !.coupon_discount = coupon, !.prepaid_discount = prepaid,
             !.shipping_charges = shipping]

PricingBodies ==
  { RawBody(WithPricing(pl, t, s, cd[1], cd[2], h), 0) :
      pl \in { q \in SuccessPayloads : q.status = "SUCCESS" },
      t \in {NoAmount, 0, 700},
      s \in {NoAmount, 0, 120},
      cd \in {<<NoAmount, NoAmount>>, <<10, 5>>},
      h \in {NoAmount, 40} }

PricingNext ==
  /\ \/ \E b \in PricingBodies :
          handleOrderWebhook(1, b, digestBase64(createHmac(SecretKey, b)))
     \/ Step(1)
  /\ UNCHANGED <<lastReq, queueVars>>

PricingSpec == Init /\ [][PricingNext]_vars

----------------------------------------------------------------------------
(* The Event Classifier on its own: resolveEventType applied to a payload *)

ClassifyInputs ==
  { Payload("o1", st, ev, sh, NoCart) :
      st \in {undefined, "", "SUCCESS", "success", "Failed", "cancelled",
              "INITIATED", "PENDING"},
      ev \in {undefined, "", "order_success", "ORDER_CANCELLED", "Refund"},
      sh \in {undefined, "", "RTO"} }

ClassifyInit ==
  /\ InitOrders
  /\ InitQueue
  /\ InitShop
  /\ lastReq \in { [rawBody |-> RawBody(pl, 0), hmacHeader |-> NoHeader] :
                     pl \in ClassifyInputs }

\* const eventType = this.resolveEventType(payload), kept as the result
Classify ==
  /\ pc[1] = "idle"
  /\ pc' = [pc EXCEPT ![1] = "done"]
  /\ res' = [res EXCEPT
               ![1] = Returned(resolveEventType(JSON_parse(lastReq.rawBody)),
                               0)]
  /\ UNCHANGED <<fixedVars, mail, stock, orders, payload, ord, idx, tview,
                 twrites, tstale, deliveries, hist, lastReq, queueVars>>

ClassifySpec == ClassifyInit /\ [][Classify]_vars

----------------------------------------------------------------------------
(* Outbound retry queue: ShiprocketWebhookQueue *)

MaxQueue == 2
MaxTime == 2
MaxJobs == 3

MAX_ATTEMPTS == 3

\* 5 s, 30 s, 5 min, in units of the 1000 ms poll sleep
RETRY_DELAYS == <<5, 30, 300>>

JobTypes == {"product", "collection"}
JobIds == {"a", "b"}

\* what can happen to the provider call of a send
SendOutcomes == {"ok", "httpError", "timeout", "notFound"}

Resolved(value) == [threw |-> FALSE, value |-> value]

Rejected(error) == [threw |-> TRUE, value |-> error]

sendProductUpdateWebhook_Rethrows(outcome) ==
  IF outcome = "ok" THEN Resolved("data") ELSE Rejected(outcome)

\* the whole body is in try/catch: the catch logs and returns null
sendProductUpdateWebhook(outcome) ==
  IF outcome = "ok" THEN Resolved("data") ELSE Resolved("null")

\* likewise
sendCollectionUpdateWebhook(outcome) ==
  IF outcome = "ok" THEN Resolved("data") ELSE Resolved("null")

NotAwaiting == [what |-> "none", until |-> 0]

\* LoopTop of a processQueue that never raises the processing flag
LoopTop_NoFlag(q) ==
  IF Len(q) = 0
  THEN /\ processing' = FALSE
       /\ awaiting' = NotAwaiting
  ELSE /\ UNCHANGED processing
       /\ awaiting' = IF q[1].nextRetry > now
                      THEN [what |-> "sleep", until |-> now + 1]
                      ELSE [what |-> "send", until |-> 0]

\* processQueue from the loop condition to its next await, on queue q
LoopTop(q) ==
  IF Len(q) = 0
  THEN /\ processing' = FALSE
       /\ awaiting' = NotAwaiting
  ELSE /\ processing' = TRUE
       /\ awaiting' = IF q[1].nextRetry > now
                      THEN [what |-> "sleep", until |-> now + 1]
                      ELSE [what |-> "send", until |-> 0]

\* processQueue from its call to its first await, on queue q
processQueue(q) ==
  IF processing \/ Len(q) = 0
  THEN UNCHANGED <<processing, awaiting, loops>>
  ELSE /\ loops' = loops + 1
       /\ LoopTop(q)

\* seq is history: the job is the seq-th one added
addToQueue(type, id) ==
  /\ Len(queue) < MaxQueue
  /\ added < MaxJobs
  /\ added' = added + 1
  /\ LET q == Append(queue, [type |-> type, id |-> id, attempts |-> 0,
                              maxAttempts |-> MAX_ATTEMPTS,
                              nextRetry |-> now, seq |-> added + 1])
     IN  /\ queue' = q
         /\ IF ~processing
            THEN processQueue(q)
            ELSE UNCHANGED <<processing, awaiting, loops>>
  /\ UNCHANGED <<now, removed, head, sent>>

\* Shift that takes the job from the back of the queue (pop for shift)
Shift_Pop(sends, fails, ok) ==
  /\ queue' = SubSeq(queue, 1, Len(queue) - 1)
  /\ removed' = removed \cup {[sends |-> sends, fails |-> fails, lastOk |-> ok]}
  /\ head' = [sends |-> 0, fails |-> 0]

\* the job at the head leaves the queue
Shift(sends, fails, ok) ==
  /\ queue' = Tail(queue)
  /\ removed' = removed \cup {[sends |-> sends, fails |-> fails, lastOk |-> ok]}
  /\ head' = [sends |-> 0, fails |-> 0]

\* processQueue resumes from its await: the sleep is over, or the send has
\* settled with the given outcome of the provider call
Resume(outcome) ==
  /\ awaiting.what # "none"
  /\ UNCHANGED now
  /\ IF awaiting.what = "sleep"
     THEN /\ now >= awaiting.until
          /\ outcome = "ok"
          /\ LoopTop(queue)
          /\ UNCHANGED <<queue, removed, head, sent>>
     ELSE LET job == queue[1]
              settled == IF job.type = "product"
                         THEN sendProductUpdateWebhook(outcome)
                         ELSE sendCollectionUpdateWebhook(outcome)
              sends == head.sends + 1
              fails == head.fails + (IF outcome = "ok" THEN 0 ELSE 1)
          IN  /\ sent' = Append(sent, [seq |-> job.seq,
                                       ok |-> outcome = "ok",
                                       at |-> now,
                                       due |-> job.nextRetry,
                                       attempts |-> job.attempts])
              /\ IF ~settled.threw
                 THEN /\ Shift(sends, fails, outcome = "ok")
                      /\ LoopTop(Tail(queue))
                 ELSE IF job.attempts + 1 >= job.maxAttempts
                      THEN /\ Shift(sends, fails, outcome = "ok")
                           /\ LoopTop(Tail(queue))
                      ELSE LET retry ==
                                 [job EXCEPT
                                    !.attempts = job.attempts + 1,
                                    !.nextRetry =
                                       now + RETRY_DELAYS[job.attempts + 1]]
                               q == [queue EXCEPT ![1] = retry]
                           IN  /\ queue' = q
                               /\ head' = [sends |-> sends, fails |-> fails]
                               /\ LoopTop(q)
                               /\ UNCHANGED removed
  /\ UNCHANGED added
  /\ loops' = IF awaiting'.what = "none" THEN loops - 1 ELSE loops

Tick ==
  /\ now < MaxTime
  /\ now' = now + 1
  /\ UNCHANGED <<queue, processing, awaiting, removed, head, added, loops,
                 sent>>

QueueNext ==
  /\ \/ \E type \in JobTypes : \E id \in JobIds : addToQueue(type, id)
     \/ \E outcome \in SendOutcomes : Resume(outcome)
     \/ Tick
  /\ UNCHANGED <<orderVars, lastReq>>

QueueSpec == Init /\ [][QueueNext]_vars

\* the awaited promise of processQueue settles: the send ends (axios has a
\* 10 s timeout) or the sleep timer fires
DrainStep ==
  /\ \E outcome \in SendOutcomes : Resume(outcome)
  /\ UNCHANGED <<orderVars, lastReq>>

TickStep == Tick /\ UNCHANGED <<orderVars, lastReq>>

\* the queue under a fair event loop and an advancing clock
QueueFairSpec == QueueSpec /\ WF_vars(DrainStep) /\ WF_vars(TickStep)

----------------------------------------------------------------------------
(* ShipmentService: the shipment pipeline of the cart-based shop.  Callers
   run concurrently; every await is a step. *)

MaxShipCalls == 5

\* everything the cart-based shop leaves alone
pipelineVars == <<impl, products, stock, orders, pc, payload, ord, idx, tview,
                  twrites, tstale, res, deliveries, initStock, hist, mail,
                  lastReq, queueVars>>

COrder(st) ==
  [status |-> st, shipmentStatus |-> undefined, shipmentId |-> 0,
   items |-> <<>>]

\* shipmentRepo.createShipment({ orderId, ... }): status 'pending'; pickup
\* records that generatePickup succeeded for it
NewShipment(orderId) ==
  [orderId |-> orderId, status |-> "pending", shiprocketOrderId |-> FALSE,
   shiprocketShipmentId |-> FALSE, awb |-> FALSE, pickup |-> FALSE,
   errorMessage |-> FALSE]

RECURSIVE CallsUpTo(_)
CallsUpTo(p) == IF p = 0 THEN 0 ELSE scall[p].n + CallsUpTo(p - 1)

\* number of ShipmentService calls made so far
ShipCalls == CallsUpTo(NumProcs)

\* the answers of the Shiprocket API
ShipOutcomes == {"ok", "fail"}

SGoto(p, a) ==
  /\ scall' = [scall EXCEPT ![p].pc = a]
  /\ UNCHANGED sres

\* the call of p ends with result r
SEnd(p, r) ==
  /\ scall' = [scall EXCEPT ![p].pc = "idle", ![p].arg = 0, ![p].ship = 0,
                            ![p].seen = FALSE]
  /\ sres' = [sres EXCEPT ![p] = r]

\* a ShipmentService method is called with an order or shipment _id
SCall(p, method, id) ==
  /\ scall[p].pc = "idle"
  /\ ShipCalls < MaxShipCalls
  /\ scall' = [scall EXCEPT ![p].pc = method, ![p].arg = id,
                            ![p].n = scall[p].n + 1]
  /\ sres' = [sres EXCEPT ![p] = NoResult]
  /\ UNCHANGED <<corders, shipments>>

\* shipmentRepo.getShipmentByOrderId: the latest shipment of the order, 0 if
\* none
getShipmentByOrderId(orderId) ==
  IF \E s \in 1..Len(shipments) : shipments[s].orderId = orderId
  THEN CHOOSE s \in 1..Len(shipments) :
         /\ shipments[s].orderId = orderId
         /\ \A t \in (s + 1)..Len(shipments) : shipments[t].orderId # orderId
  ELSE 0

\* createShipmentFromOrder: await getOrderById, then the status check
CreateShipment_GetOrder(p) ==
  /\ scall[p].pc = "createShipmentFromOrder"
  /\ UNCHANGED <<corders, shipments>>
  /\ LET orderId == scall[p].arg
     IN  IF orderId \notin 1..Len(corders)
         THEN SEnd(p, Threw("NotFoundError"))
         ELSE IF corders[orderId].status # "confirmed"
              THEN SEnd(p, Threw("BadRequestError"))
              ELSE SGoto(p, "csFind")

\* await getShipmentByOrderId: an existing shipment is returned
CreateShipment_Find(p) ==
  /\ scall[p].pc = "csFind"
  /\ UNCHANGED <<corders, shipments>>
  /\ LET existingShipment == getShipmentByOrderId(scall[p].arg)
     IN  IF existingShipment # 0
         THEN SEnd(p, Returned("shipment", existingShipment))
         ELSE SGoto(p, "csCreate")

\* await shipmentRepo.createShipment
CreateShipment_Create(p) ==
  /\ scall[p].pc = "csCreate"
  /\ shipments' = Append(shipments, NewShipment(scall[p].arg))
  /\ scall' = [scall EXCEPT ![p].pc = "csLink",
                            ![p].ship = Len(shipments) + 1]
  /\ UNCHANGED <<corders, sres>>

\* await orderRepo.updateOrderShipmentId, then the shipment is returned
CreateShipment_Link(p) ==
  /\ scall[p].pc = "csLink"
  /\ corders' = [corders EXCEPT ![scall[p].arg].shipmentId = scall[p].ship]
  /\ SEnd(p, Returned("shipment", scall[p].ship))
  /\ UNCHANGED shipments

\* createShiprocketOrder: await getShipmentById
ShiprocketOrder_GetShipment(p) ==
  /\ scall[p].pc = "createShiprocketOrder"
  /\ UNCHANGED <<corders, shipments>>
  /\ LET shipmentId == scall[p].arg
     IN  IF shipmentId \notin 1..Len(shipments)
         THEN SEnd(p, Threw("NotFoundError"))
         ELSE /\ scall' = [scall EXCEPT
                             ![p].pc = "soOrder",
                             ![p].seen =
                               shipments[shipmentId].shiprocketOrderId]
              /\ UNCHANGED sres

\* await getOrderById; a shipment read with its Shiprocket order already
\* created is returned as it is
ShiprocketOrder_GetOrder(p) ==
  /\ scall[p].pc = "soOrder"
  /\ UNCHANGED <<corders, shipments>>
  /\ IF scall[p].seen
     THEN SEnd(p, Returned("shipment", scall[p].arg))
     ELSE SGoto(p, "soCreate")

\* await shiprocketService.createOrder(orderData)
ShiprocketOrder_Create(p, outcome) ==
  /\ scall[p].pc = "soCreate"
  /\ UNCHANGED <<corders, shipments>>
  /\ SGoto(p, IF outcome = "ok" THEN "soDetails" ELSE "soError")

\* await shipmentRepo.updateShipmentShiprocketDetails
ShiprocketOrder_Details(p) ==
  /\ scall[p].pc = "soDetails"
  /\ shipments' = [shipments EXCEPT
                     ![scall[p].arg].shiprocketOrderId = TRUE,
                     ![scall[p].arg].shiprocketShipmentId = TRUE]
  /\ SGoto(p, "soStatus")
  /\ UNCHANGED corders

\* await orderRepo.updateOrderStatus({ status: 'processing', shipmentStatus:
\* 'pending' }), then the shipment is read and returned
ShiprocketOrder_Status(p) ==
  /\ scall[p].pc = "soStatus"
  /\ corders' = [corders EXCEPT
                   ![shipments[scall[p].arg].orderId].status = "processing",
                   ![shipments[scall[p].arg].orderId].shipmentStatus =
                     "pending"]
  /\ SEnd(p, Returned("shipment", scall[p].arg))
  /\ UNCHANGED shipments

\* the catch: await shipmentRepo.updateShipmentError, then
\* InternalServerError
ShiprocketOrder_Error(p) ==
  /\ scall[p].pc = "soError"
  /\ shipments' = [shipments EXCEPT ![scall[p].arg].errorMessage = TRUE,
                                    ![scall[p].arg].status = "cancelled"]
  /\ SEnd(p, Threw("InternalServerError"))
  /\ UNCHANGED corders

\* assignCourierAndGenerateAWB: await getShipmentById, then the check that
\* the Shiprocket order exists
AssignCourier_GetShipment(p) ==
  /\ scall[p].pc = "assignCourierAndGenerateAWB"
  /\ UNCHANGED <<corders, shipments>>
  /\ LET shipmentId == scall[p].arg
     IN  IF shipmentId \notin 1..Len(shipments)
         THEN SEnd(p, Threw("NotFoundError"))
         ELSE IF ~shipments[shipmentId].shiprocketShipmentId
              THEN SEnd(p, Threw("BadRequestError"))
              ELSE SGoto(p, "awAssign")

\* the courier is chosen and await shiprocketService.assignCourier; any
\* failure in there is rethrown as InternalServerError
AssignCourier_Assign(p, outcome) ==
  /\ scall[p].pc = "awAssign"
  /\ UNCHANGED <<corders, shipments>>
  /\ IF outcome = "ok"
     THEN SGoto(p, "awAwb")
     ELSE SEnd(p, Threw("InternalServerError"))

\* await shipmentRepo.updateShipmentAwb: it also sets status
\* 'pickup_scheduled'
AssignCourier_Awb(p) ==
  /\ scall[p].pc = "awAwb"
  /\ shipments' = [shipments EXCEPT ![scall[p].arg].awb = TRUE,
                                    ![scall[p].arg].status = "pickup_scheduled"]
  /\ SGoto(p, "awStatus")
  /\ UNCHANGED corders

\* await orderRepo.updateOrderStatus({ status: 'processing', shipmentStatus:
\* 'pickup_scheduled' }), then the shipment is read and returned
AssignCourier_Status(p) ==
  /\ scall[p].pc = "awStatus"
  /\ corders' = [corders EXCEPT
                   ![shipments[scall[p].arg].orderId].status = "processing",
                   ![shipments[scall[p].arg].orderId].shipmentStatus =
                     "pickup_scheduled"]
  /\ SEnd(p, Returned("shipment", scall[p].arg))
  /\ UNCHANGED shipments

\* schedulePickup: await getShipmentById, then the check that an AWB exists
SchedulePickup_GetShipment(p) ==
  /\ scall[p].pc = "schedulePickup"
  /\ UNCHANGED <<corders, shipments>>
  /\ LET shipmentId == scall[p].arg
     IN  IF shipmentId \notin 1..Len(shipments)
         THEN SEnd(p, Threw("NotFoundError"))
         ELSE IF ~shipments[shipmentId].awb
              THEN SEnd(p, Threw("BadRequestError"))
              ELSE SGoto(p, "puGenerate")

\* await shiprocketService.generatePickup
SchedulePickup_Generate(p, outcome) ==
  /\ scall[p].pc = "puGenerate"
  /\ UNCHANGED <<corders, shipments>>
  /\ IF outcome = "ok"
     THEN SGoto(p, "puStatus")
     ELSE SEnd(p, Threw("InternalServerError"))

\* await shipmentRepo.updateShipmentStatus(_id, 'pickup_scheduled')
SchedulePickup_Status(p) ==
  /\ scall[p].pc = "puStatus"
  /\ shipments' = [shipments EXCEPT ![scall[p].arg].pickup = TRUE,
                                    ![scall[p].arg].status = "pickup_scheduled"]
  /\ SGoto(p, "puOrder")
  /\ UNCHANGED corders

\* await orderRepo.updateOrderStatus, then the shipment is read and returned
SchedulePickup_Order(p) ==
  /\ scall[p].pc = "puOrder"
  /\ corders' = [corders EXCEPT
                   ![shipments[scall[p].arg].orderId].status = "processing",
                   ![shipments[scall[p].arg].orderId].shipmentStatus =
                     "pickup_scheduled"]
  /\ SEnd(p, Returned("shipment", scall[p].arg))
  /\ UNCHANGED shipments

ShipMethods ==
  {"createShipmentFromOrder", "createShiprocketOrder",
   "assignCourierAndGenerateAWB", "schedulePickup"}

\* the orders the shop starts with: one order, in any of three states
ShipInit ==
  /\ InitOrders
  /\ impl = "guarded"
  /\ stock = [v \in Variants |-> 0]
  /\ InitQueue
  /\ lastReq = NoReq
  /\ corders \in { <<COrder(st)>> :
                     st \in {"created", "confirmed", "cancelled"} }
  /\ shipments = <<>>
  /\ scall = [p \in Procs |-> [pc |-> "idle", arg |-> 0, ship |-> 0,
                               seen |-> FALSE, n |-> 0]]
  /\ sres = [p \in Procs |-> NoResult]
  /\ InitWish
  /\ InitCart

ShipStep(p) ==
  \/ \E m \in ShipMethods : \E id \in 1..2 : SCall(p, m, id)
  \/ CreateShipment_GetOrder(p)
  \/ CreateShipment_Find(p)
  \/ CreateShipment_Create(p)
  \/ CreateShipment_Link(p)
  \/ ShiprocketOrder_GetShipment(p)
  \/ ShiprocketOrder_GetOrder(p)
  \/ \E outcome \in ShipOutcomes : ShiprocketOrder_Create(p, outcome)
  \/ ShiprocketOrder_Details(p)
  \/ ShiprocketOrder_Status(p)
  \/ ShiprocketOrder_Error(p)
  \/ AssignCourier_GetShipment(p)
  \/ \E outcome \in ShipOutcomes : AssignCourier_Assign(p, outcome)
  \/ AssignCourier_Awb(p)
  \/ AssignCourier_Status(p)
  \/ SchedulePickup_GetShipment(p)
  \/ \E outcome \in ShipOutcomes : SchedulePickup_Generate(p, outcome)
  \/ SchedulePickup_Status(p)
  \/ SchedulePickup_Order(p)

ShipNext ==
  \E p \in Procs : ShipStep(p) /\ UNCHANGED <<pipelineVars, wishVars, cartVars>>

ShipSpec == ShipInit /\ [][ShipNext]_vars

----------------------------------------------------------------------------
(* WishlistService: the wishlists of users and guest sessions.  Callers run
   concurrently; every await that reaches the wishlist collection is a
   step.  Every stored product and variant is active. *)

MaxWishCalls == 3

Users == {"u1"}

Sessions == {"s1"}

WishItem(productId, variantId) ==
  [productId |-> productId, variantId |-> variantId]

\* wishlistModel.create({ userId, sessionId, items, isActive: true })
NewWishlist(userId, sessionId, items) ==
  [userId |-> userId, sessionId |-> sessionId, items |-> items,
   isActive |-> TRUE]

\* findOne({ userId, isActive: true }): its _id, 0 if none
getWishlistByUserId(userId) ==
  IF \E w \in 1..Len(wishlists) :
       wishlists[w].isActive /\ wishlists[w].userId = userId
  THEN CHOOSE w \in 1..Len(wishlists) :
         wishlists[w].isActive /\ wishlists[w].userId = userId
  ELSE 0

\* findOne({ sessionId, isActive: true }): its _id, 0 if none
getWishlistBySessionId(sessionId) ==
  IF \E w \in 1..Len(wishlists) :
       wishlists[w].isActive /\ wishlists[w].sessionId = sessionId
  THEN CHOOSE w \in 1..Len(wishlists) :
         wishlists[w].isActive /\ wishlists[w].sessionId = sessionId
  ELSE 0

\* userId ? getWishlistByUserId(userId) : getWishlistBySessionId(sessionId)
WishlistOf(userId, sessionId) ==
  IF Truthy(userId) THEN getWishlistByUserId(userId)
  ELSE getWishlistBySessionId(sessionId)

\* the two partial unique indexes: one active wishlist per user and one per
\* session
ActiveWishlistExists(userId, sessionId) ==
  \E w \in 1..Len(wishlists) :
    /\ wishlists[w].isActive
    /\ \/ userId # undefined /\ wishlists[w].userId = userId
       \/ sessionId # undefined /\ wishlists[w].sessionId = sessionId

\* the item predicate of checkItemExists and of removeItem's $pull
ItemMatch(item, productId, variantId) ==
  /\ item.productId = productId
  /\ Truthy(variantId) => item.variantId = variantId

checkItemExists(items, productId, variantId) ==
  \E i \in 1..Len(items) : ItemMatch(items[i], productId, variantId)

removeItem(items, productId, variantId) ==
  SelectSeq(items, LAMBDA item : ~ItemMatch(item, productId, variantId))

\* mergeWishlists: the guest items that the user's wishlist does not have
itemsToAdd(guestItems, userItems) ==
  SelectSeq(guestItems,
            LAMBDA guestItem :
              ~checkItemExists(userItems, guestItem.productId,
                               guestItem.variantId))

RECURSIVE WishCallsUpTo(_)
WishCallsUpTo(p) == IF p = 0 THEN 0 ELSE wcall[p].n + WishCallsUpTo(p - 1)

\* number of WishlistService calls made so far
WishCalls == WishCallsUpTo(NumProcs)

WGoto(p, a) ==
  /\ wcall' = [wcall EXCEPT ![p].pc = a]
  /\ UNCHANGED wres

\* the call of p ends with result r
WEnd(p, r) ==
  /\ wcall' = [wcall EXCEPT ![p] = [NoWishCall EXCEPT !.n = wcall[p].n]]
  /\ wres' = [wres EXCEPT ![p] = r]

\* a WishlistService method is called
WCall(p, method, userId, sessionId, productId, variantId) ==
  /\ wcall[p].pc = "idle"
  /\ WishCalls < MaxWishCalls
  /\ wcall' = [wcall EXCEPT ![p] =
                 [NoWishCall EXCEPT !.pc = method, !.userId = userId,
                                    !.sessionId = sessionId,
                                    !.productId = productId,
                                    !.variantId = variantId,
                                    !.n = wcall[p].n + 1]]
  /\ wres' = [wres EXCEPT ![p] = NoResult]
  /\ UNCHANGED wishlists

\* addToWishlist: the checks of the identity, the product and the variant
AddToWishlist_Validate(p) ==
  /\ wcall[p].pc = "addToWishlist"
  /\ UNCHANGED wishlists
  /\ LET c == wcall[p]
     IN IF ~Truthy(c.userId) /\ ~Truthy(c.sessionId)
        THEN WEnd(p, Threw("BadRequestError"))
        ELSE IF findProduct(c.productId) = undefined
             THEN WEnd(p, Threw("NotFoundError"))
             ELSE IF /\ Truthy(c.variantId)
                     /\ VariantDoc[c.variantId].productId # c.productId
                  THEN WEnd(p, Threw("BadRequestError"))
                  ELSE WGoto(p, "add_get")

\* addToWishlist: the wishlist is read and searched for the item
AddToWishlist_Get(p) ==
  /\ wcall[p].pc = "add_get"
  /\ UNCHANGED wishlists
  /\ LET c == wcall[p]
         wishlist == WishlistOf(c.userId, c.sessionId)
     IN IF wishlist = 0
        THEN WGoto(p, "add_create")
        ELSE IF checkItemExists(wishlists[wishlist].items, c.productId,
                                c.variantId)
             THEN WEnd(p, Threw("BadRequestError"))
             ELSE /\ wcall' = [wcall EXCEPT ![p].pc = "add_push",
                                            ![p].wl = wishlist]
                  /\ UNCHANGED wres

\* addToWishlist: createWishlist with the item
AddToWishlist_Create(p) ==
  /\ wcall[p].pc = "add_create"
  /\ LET c == wcall[p]
     IN IF ActiveWishlistExists(c.userId, c.sessionId)
        THEN /\ UNCHANGED wishlists
             /\ WEnd(p, Threw("MongoServerError"))
        ELSE /\ wishlists' =
                  Append(wishlists,
                         NewWishlist(c.userId, c.sessionId,
                                     <<WishItem(c.productId, c.variantId)>>))
             /\ WEnd(p, Returned("wishlist", Len(wishlists) + 1))

\* addToWishlist: addItem, a $push on the wishlist read before
AddToWishlist_Push(p) ==
  /\ wcall[p].pc = "add_push"
  /\ LET c == wcall[p]
     IN /\ wishlists' =
             [wishlists EXCEPT ![c.wl].items =
                Append(@, WishItem(c.productId, c.variantId))]
        /\ WEnd(p, Returned("wishlist", c.wl))

\* removeFromWishlist: the wishlist is read and searched for the item
RemoveFromWishlist_Get(p) ==
  /\ wcall[p].pc = "removeFromWishlist"
  /\ UNCHANGED wishlists
  /\ LET c == wcall[p]
         wishlist == WishlistOf(c.userId, c.sessionId)
     IN IF ~Truthy(c.userId) /\ ~Truthy(c.sessionId)
        THEN WEnd(p, Threw("BadRequestError"))
        ELSE IF wishlist = 0
             THEN WEnd(p, Threw("NotFoundError"))
             ELSE IF ~checkItemExists(wishlists[wishlist].items,
                                      c.productId, c.variantId)
                  THEN WEnd(p, Threw("NotFoundError"))
                  ELSE /\ wcall' = [wcall EXCEPT ![p].pc = "remove_pull",
                                                 ![p].wl = wishlist]
                       /\ UNCHANGED wres

\* removeFromWishlist: removeItem, a $pull
RemoveFromWishlist_Pull(p) ==
  /\ wcall[p].pc = "remove_pull"
  /\ LET c == wcall[p]
     IN /\ wishlists' =
             [wishlists EXCEPT ![c.wl].items =
                removeItem(@, c.productId, c.variantId)]
        /\ WEnd(p, Returned("wishlist", c.wl))

\* clearWishlist: the wishlist is read
ClearWishlist_Get(p) ==
  /\ wcall[p].pc = "clearWishlist"
  /\ UNCHANGED wishlists
  /\ LET c == wcall[p]
         wishlist == WishlistOf(c.userId, c.sessionId)
     IN IF ~Truthy(c.userId) /\ ~Truthy(c.sessionId)
        THEN WEnd(p, Threw("BadRequestError"))
        ELSE IF wishlist = 0
             THEN WEnd(p, Threw("NotFoundError"))
             ELSE /\ wcall' = [wcall EXCEPT ![p].pc = "clear_set",
                                            ![p].wl = wishlist]
                  /\ UNCHANGED wres

\* clearWishlist: $set items to []
ClearWishlist_Set(p) ==
  /\ wcall[p].pc = "clear_set"
  /\ wishlists' = [wishlists EXCEPT ![wcall[p].wl].items = <<>>]
  /\ WEnd(p, Returned("cleared", wcall[p].wl))

\* mergeGuestWishlistToUser: the user's wishlist is read
Merge_GetUser(p) ==
  /\ wcall[p].pc = "mergeGuestWishlistToUser"
  /\ UNCHANGED <<wishlists, wres>>
  /\ wcall' = [wcall EXCEPT ![p].pc = "merge_guest",
                            ![p].wl = getWishlistByUserId(wcall[p].userId)]

\* mergeGuestWishlistToUser: the guest wishlist is read
Merge_GetGuest(p) ==
  /\ wcall[p].pc = "merge_guest"
  /\ UNCHANGED wishlists
  /\ LET c == wcall[p]
         guestWishlist == getWishlistBySessionId(c.sessionId)
     IN IF guestWishlist = 0
        THEN IF c.wl # 0
             THEN WEnd(p, Returned("wishlist", c.wl))
             ELSE WGoto(p, "merge_empty")
        ELSE /\ wcall' =
                  [wcall EXCEPT
                     ![p].pc = IF c.wl = 0 THEN "merge_convert"
                               ELSE "merge_find_guest",
                     ![p].guest = guestWishlist,
                     ![p].items = wishlists[guestWishlist].items]
             /\ UNCHANGED wres

\* mergeGuestWishlistToUser, no guest wishlist: createWishlist({ userId })
Merge_CreateEmpty(p) ==
  /\ wcall[p].pc = "merge_empty"
  /\ IF ActiveWishlistExists(wcall[p].userId, undefined)
     THEN /\ UNCHANGED wishlists
          /\ WEnd(p, Threw("MongoServerError"))
     ELSE /\ wishlists' =
               Append(wishlists,
                      NewWishlist(wcall[p].userId, undefined, <<>>))
          /\ WEnd(p, Returned("wishlist", Len(wishlists) + 1))

\* mergeGuestWishlistToUser, no user wishlist: a user wishlist is created
\* with the guest items
Merge_Convert(p) ==
  /\ wcall[p].pc = "merge_convert"
  /\ IF ActiveWishlistExists(wcall[p].userId, undefined)
     THEN /\ UNCHANGED wishlists
          /\ WEnd(p, Threw("MongoServerError"))
     ELSE /\ wishlists' =
               Append(wishlists,
                      NewWishlist(wcall[p].userId, undefined,
                                  wcall[p].items))
          /\ wcall' = [wcall EXCEPT ![p].pc = "merge_delete",
                                    ![p].wl = Len(wishlists) + 1]
          /\ UNCHANGED wres

\* mergeGuestWishlistToUser: deleteWishlist(guestWishlist._id)
Merge_Delete(p) ==
  /\ wcall[p].pc = "merge_delete"
  /\ wishlists' = [wishlists EXCEPT ![wcall[p].guest].isActive = FALSE]
  /\ WEnd(p, Returned("wishlist", wcall[p].wl))

\* mergeWishlists: findById(guestWishlistId)
MergeWishlists_FindGuest(p) ==
  /\ wcall[p].pc = "merge_find_guest"
  /\ UNCHANGED <<wishlists, wres>>
  /\ wcall' = [wcall EXCEPT ![p].pc = "merge_find_user",
                            ![p].items = wishlists[wcall[p].guest].items]

\* mergeWishlists: findById(userWishlistId) and the filter of the guest items
MergeWishlists_FindUser(p) ==
  /\ wcall[p].pc = "merge_find_user"
  /\ UNCHANGED <<wishlists, wres>>
  /\ LET c == wcall[p]
         toAdd == itemsToAdd(c.items, wishlists[c.wl].items)
     IN wcall' = [wcall EXCEPT
                    ![p].pc = IF Len(toAdd) > 0 THEN "merge_push"
                              ELSE "merge_deactivate",
                    ![p].items = toAdd]

\* mergeWishlists: $push of the items to add
MergeWishlists_Push(p) ==
  /\ wcall[p].pc = "merge_push"
  /\ wishlists' = [wishlists EXCEPT ![wcall[p].wl].items =
                                      @ \o wcall[p].items]
  /\ WGoto(p, "merge_deactivate")

\* mergeWishlists: the guest wishlist is deactivated, the user's returned
MergeWishlists_Deactivate(p) ==
  /\ wcall[p].pc = "merge_deactivate"
  /\ wishlists' = [wishlists EXCEPT ![wcall[p].guest].isActive = FALSE]
  /\ WEnd(p, Returned("wishlist", wcall[p].wl))

WishInit ==
  /\ InitOrders
  /\ impl = "guarded"
  /\ stock = [v \in Variants |-> 0]
  /\ InitQueue
  /\ lastReq = NoReq
  /\ InitShop

WishStep(p) ==
  \/ \E userId \in {undefined} \cup Users :
       \E sessionId \in {undefined} \cup Sessions :
         \/ \E productId \in Products :
              \E variantId \in {undefined} \cup Variants :
                \E m \in {"addToWishlist", "removeFromWishlist"} :
                  WCall(p, m, userId, sessionId, productId, variantId)
         \/ WCall(p, "clearWishlist", userId, sessionId, undefined,
                  undefined)
  \/ \E userId \in Users : \E sessionId \in Sessions :
       WCall(p, "mergeGuestWishlistToUser", userId, sessionId, undefined,
             undefined)
  \/ AddToWishlist_Validate(p)
  \/ AddToWishlist_Get(p)
  \/ AddToWishlist_Create(p)
  \/ AddToWishlist_Push(p)
  \/ RemoveFromWishlist_Get(p)
  \/ RemoveFromWishlist_Pull(p)
  \/ ClearWishlist_Get(p)
  \/ ClearWishlist_Set(p)
  \/ Merge_GetUser(p)
  \/ Merge_GetGuest(p)
  \/ Merge_CreateEmpty(p)
  \/ Merge_Convert(p)
  \/ Merge_Delete(p)
  \/ MergeWishlists_FindGuest(p)
  \/ MergeWishlists_FindUser(p)
  \/ MergeWishlists_Push(p)
  \/ MergeWishlists_Deactivate(p)

WishNext ==
  \E p \in Procs :
    WishStep(p) /\ UNCHANGED <<pipelineVars, shopVars, cartVars>>

WishSpec == WishInit /\ [][WishNext]_vars

----------------------------------------------------------------------------
(* The cart-based OrderService: createOrderFromCart, updateOrderStatus and
   cancelOrder.  Callers run concurrently; every await is a step.  Every cart
   line names a colour and a size that its product has. *)

MaxOrderCalls == 3

\* the product that holds a colour and size
productOf(sku) == "p1"

\* the status enum of the order model
OrderStatuses ==
  {"created", "payment_pending", "payment_processing", "payment_failed",
   "confirmed", "processing", "shipped", "delivered", "cancelled",
   "refund_initiated", "refunded", "failed"}

cancellableStatuses ==
  {"created", "payment_pending", "payment_failed", "confirmed"}

CartLine(sku, quantity) == [sku |-> sku, quantity |-> quantity]

CartLines == { CartLine(k, q) : k \in Skus, q \in 1..MaxStock }

\* the carts a customer can have: up to two lines
ShopCarts ==
  {<<>>} \cup { <<l>> : l \in CartLines }
         \cup { <<l, m>> : l \in CartLines, m \in CartLines }

RECURSIVE OrderCallsUpTo(_)
OrderCallsUpTo(p) ==
  IF p = 0 THEN 0 ELSE ocall[p].n + OrderCallsUpTo(p - 1)

\* number of OrderService calls made so far
OrderCalls == OrderCallsUpTo(NumProcs)

OGoto(p, a) ==
  /\ ocall' = [ocall EXCEPT ![p].pc = a]
  /\ UNCHANGED ores

\* the call of p ends with result r
OEnd(p, r) ==
  /\ ocall' = [ocall EXCEPT ![p] = [NoCartCall EXCEPT !.n = ocall[p].n]]
  /\ ores' = [ores EXCEPT ![p] = r]

\* an OrderService method is called
OCall(p, method, id) ==
  /\ ocall[p].pc = "idle"
  /\ OrderCalls < MaxOrderCalls
  /\ ocall' = [ocall EXCEPT ![p] =
                 [NoCartCall EXCEPT !.pc = method, !.arg = id,
                                    !.n = ocall[p].n + 1]]
  /\ ores' = [ores EXCEPT ![p] = NoResult]
  /\ UNCHANGED <<corders, pstock, shopCart, placed>>

\* createOrderFromCart: cartModel.findOne({ ..., isActive: true })
CreateOrderFromCart_GetCart(p) ==
  /\ ocall[p].pc = "createOrderFromCart"
  /\ UNCHANGED <<corders, pstock, shopCart, placed>>
  /\ IF ~shopCart.isActive \/ Len(shopCart.items) = 0
     THEN OEnd(p, Threw("BadRequestError"))
     ELSE /\ ocall' = [ocall EXCEPT ![p].pc = "validateCartItems",
                                    ![p].items = shopCart.items,
                                    ![p].idx = 1]
          /\ UNCHANGED ores

\* validateCartItems: one turn of its loop; the stock is compared, never
\* changed
validateCartItems(p) ==
  /\ ocall[p].pc = "validateCartItems"
  /\ UNCHANGED <<corders, pstock, shopCart, placed>>
  /\ LET c == ocall[p]
         item == c.items[c.idx]
     IN IF findProduct(productOf(item.sku)) = undefined
        THEN OEnd(p, Threw("NotFoundError"))
        ELSE IF pstock[item.sku] < item.quantity
             THEN OEnd(p, Threw("BadRequestError"))
             ELSE /\ ocall' =
                       [ocall EXCEPT
                          ![p].idx = c.idx + 1,
                          ![p].pc = IF c.idx = Len(c.items)
                                    THEN "createOrder"
                                    ELSE "validateCartItems"]
                  /\ UNCHANGED ores

\* createOrderFromCart: orderRepo.createOrder; status defaults to 'created'
CreateOrderFromCart_Create(p) ==
  /\ ocall[p].pc = "createOrder"
  /\ corders' = Append(corders,
                       [COrder("created") EXCEPT !.items = ocall[p].items])
  /\ placed' = Append(placed, [order |-> Len(corders) + 1,
                               stock |-> pstock])
  /\ ocall' = [ocall EXCEPT ![p].pc = "deactivateCart",
                            ![p].arg = Len(corders) + 1]
  /\ UNCHANGED <<ores, pstock, shopCart>>

\* createOrderFromCart: the cart is deactivated, the order returned
CreateOrderFromCart_Deactivate(p) ==
  /\ ocall[p].pc = "deactivateCart"
  /\ shopCart' = [shopCart EXCEPT !.isActive = FALSE]
  /\ OEnd(p, Returned("order", ocall[p].arg))
  /\ UNCHANGED <<corders, pstock, placed>>

\* OrderService.updateOrderStatus
updateOrderStatus(p, status) ==
  /\ ocall[p].pc = "updateOrderStatus"
  /\ UNCHANGED <<pstock, shopCart, placed>>
  /\ IF ocall[p].arg \in 1..Len(corders)
     THEN /\ corders' = [corders EXCEPT ![ocall[p].arg].status = status]
          /\ OEnd(p, Returned("order", ocall[p].arg))
     ELSE /\ UNCHANGED corders
          /\ OEnd(p, Threw("NotFoundError"))

\* cancelOrder: getOrderById and the status check
CancelOrder_GetOrder(p) ==
  /\ ocall[p].pc = "cancelOrder"
  /\ UNCHANGED <<corders, pstock, shopCart, placed>>
  /\ LET orderId == ocall[p].arg
     IN IF orderId \notin 1..Len(corders)
        THEN OEnd(p, Threw("NotFoundError"))
        ELSE IF corders[orderId].status \notin cancellableStatuses
             THEN OEnd(p, Threw("BadRequestError"))
             ELSE /\ ocall' =
                       [ocall EXCEPT
                          ![p].items = corders[orderId].items,
                          ![p].idx = 1,
                          ![p].pc = IF Len(corders[orderId].items) = 0
                                    THEN "cancel_mark" ELSE "cancel_find"]
                  /\ UNCHANGED ores

\* cancelOrder, one turn of its loop: productModel.findById(item.productId)
CancelOrder_FindProduct(p) ==
  /\ ocall[p].pc = "cancel_find"
  /\ UNCHANGED <<corders, pstock, shopCart, placed, ores>>
  /\ LET c == ocall[p]
         item == c.items[c.idx]
     IN IF findProduct(productOf(item.sku)) = undefined
        THEN ocall' = [ocall EXCEPT
                         ![p].idx = c.idx + 1,
                         ![p].pc = IF c.idx = Len(c.items)
                                   THEN "cancel_mark" ELSE "cancel_find"]
        ELSE ocall' = [ocall EXCEPT ![p].seen = pstock[item.sku],
                                    ![p].pc = "cancel_save"]

\* cancelOrder: sizeStock.stock += item.quantity; await product.save()
CancelOrder_Save(p) ==
  /\ ocall[p].pc = "cancel_save"
  /\ UNCHANGED <<corders, shopCart, placed, ores>>
  /\ LET c == ocall[p]
         item == c.items[c.idx]
     IN /\ pstock' = [pstock EXCEPT ![item.sku] = c.seen + item.quantity]
        /\ ocall' = [ocall EXCEPT
                       ![p].idx = c.idx + 1,
                       ![p].pc = IF c.idx = Len(c.items)
                                 THEN "cancel_mark" ELSE "cancel_find"]

\* cancelOrder: orderRepo.cancelOrder sets the status to 'cancelled'
CancelOrder_Mark(p) ==
  /\ ocall[p].pc = "cancel_mark"
  /\ corders' = [corders EXCEPT ![ocall[p].arg].status = "cancelled"]
  /\ OEnd(p, Returned("order", ocall[p].arg))
  /\ UNCHANGED <<pstock, shopCart, placed>>

\* a customer with a cart, and the stock of the colours and sizes
CartInit ==
  /\ InitStore
  /\ products \in {Products, {"p2"}}
  /\ impl = "guarded"
  /\ stock = [v \in Variants |-> 0]
  /\ InitQueue
  /\ lastReq = NoReq
  /\ InitShipping
  /\ InitWish
  /\ pstock \in [Skus -> 0..MaxStock]
  /\ shopCart \in { [items |-> c, isActive |-> TRUE] : c \in ShopCarts }
  /\ placed = <<>>
  /\ ocall = [p \in Procs |-> NoCartCall]
  /\ ores = [p \in Procs |-> NoResult]

CartStep(p) ==
  \/ OCall(p, "createOrderFromCart", 0)
  \/ \E id \in 1..2 : OCall(p, "cancelOrder", id)
  \/ \E id \in 1..2 : OCall(p, "updateOrderStatus", id)
  \/ CreateOrderFromCart_GetCart(p)
  \/ validateCartItems(p)
  \/ CreateOrderFromCart_Create(p)
  \/ CreateOrderFromCart_Deactivate(p)
  \/ \E status \in OrderStatuses : updateOrderStatus(p, status)
  \/ CancelOrder_GetOrder(p)
  \/ CancelOrder_FindProduct(p)
  \/ CancelOrder_Save(p)
  \/ CancelOrder_Mark(p)

CartNext ==
  \E p \in Procs :
    /\ CartStep(p)
    /\ UNCHANGED <<pipelineVars, wishVars, shipments, scall, sres>>

CartSpec == CartInit /\ [][CartNext]_vars

----------------------------------------------------------------------------
(* Properties *)

\* no delivery is in flight
Quiescent == \A p \in Procs : pc[p] \in {"idle", "done"}

\* the stored orders of external order o
OrdersFor(o) == { i \in 1..Len(orders) : orders[i].shiprocketOrderId = o }

RECURSIVE QtyFrom(_, _, _)
QtyFrom(items, v, i) ==
  IF i > Len(items) THEN 0
  ELSE (IF items[i].variantId = v THEN items[i].quantity ELSE 0)
         + QtyFrom(items, v, i + 1)

\* units of variant v requested by the cart
Qty(cart, v) == QtyFrom(orderItems(cart), v, 1)

\* C1: a success delivery that finds an order with its order_id stored
\* returns that order and changes neither the orders nor any stock counter,
\* from its receipt to its return.
IdempotentRedelivery ==
  [][\A p \in Procs :
       /\ (pc[p] \in {"idle", "done"} /\ pc'[p] = "lookup")
            => (orders' = orders /\ stock' = stock)
       /\ (/\ pc[p] = "lookup"
           /\ pc'[p] # "lookup"
           /\ getOrderByShiprocketId(payload[p].order_id) # 0)
            => /\ res'[p] = Returned("success",
                               getOrderByShiprocketId(payload[p].order_id))
               /\ pc'[p] = "done"
               /\ orders' = orders
               /\ stock' = stock]_vars

\* two deliveries of the same success webhook both returned the one order,
\* whose stock was decremented once
RedeliveryReturnedExisting ==
  \E o \in OrderIds : \E k \in OrdersFor(o) : \E p1, p2 \in Procs :
    /\ p1 # p2
    /\ Quiescent
    /\ hist[o].success = 2
    /\ hist[o].decs = 1
    /\ res[p1] = Returned("success", k)
    /\ res[p2] = Returned("success", k)

\* C2: every variant stock counter is >= 0 in every reachable state.
StockNeverNegative == \A v \in Variants : stock[v] >= 0

NoOrderAfterStockFailure ==
  [][\A p \in Procs :
       (/\ pc[p] = "stock"
        /\ pc'[p] = "done"
        /\ res'[p].error = "InsufficientStock")
         => \A i \in 1..Len(orders') :
              orders'[i].shiprocketOrderId # payload[p].order_id]_vars

\* C5: once an order that createOrderFromWebhook stored has been cancelled by
\* the one ORDER_CANCELLED delivery, and nothing but deliveries for that
\* order happened, every stock counter is back at its value before the order.
CancelRestoresPreOrderStock ==
  \A o \in OrderIds :
    (/\ Quiescent
     /\ deliveries = hist[o].success + hist[o].cancelled
     /\ hist[o].cancelled = 1
     /\ \E k \in OrdersFor(o) : orders[k].orderStatus = "CANCELLED")
      => stock = initStock

\* C8: there is never more than one order per external order identifier nor
\* more than one stock decrement for it; when only deliveries of one success
\* webhook happened, two or more, and the stock covered its cart, then once
\* all have completed there is exactly one order and each counter is down by
\* exactly the cart's quantity.
ConcurrentDuplicateCreatesOne ==
  \A o \in OrderIds :
    /\ Cardinality(OrdersFor(o)) <= 1
    /\ hist[o].decs <= 1
    /\ (/\ Quiescent
        /\ hist[o].success >= 2
        /\ deliveries = hist[o].success
        /\ \A v \in Variants : initStock[v] >= Qty(CartOf[o], v))
         => /\ Cardinality(OrdersFor(o)) = 1
            /\ hist[o].decs = 1
            /\ \A v \in Variants :
                 stock[v] = initStock[v] - Qty(CartOf[o], v)

\* two deliveries of one success webhook raced: both missed the lookup and
\* the insert of the second hit the unique index
TwoRacingDeliveriesDone ==
  \E o \in OrderIds :
    /\ Quiescent
    /\ deliveries = 2
    /\ hist[o].success = 2
    /\ \E p \in Procs : res[p].error = "DuplicateKey"
    /\ \A v \in Variants : initStock[v] >= Qty(CartOf[o], v)

\* two order creations, and nothing else, competed for the one unit of
\* variant v (the rest of their carts being covered), and both have completed
LastUnitRace(o1, o2, v) ==
  /\ o1 # o2
  /\ impl = "guarded"
  /\ Quiescent
  /\ deliveries = 2
  /\ hist[o1].success = 1
  /\ hist[o2].success = 1
  /\ initStock[v] = 1
  /\ Qty(CartOf[o1], v) = 1
  /\ Qty(CartOf[o2], v) = 1
  /\ \A w \in Variants \ {v} :
       initStock[w] >= Qty(CartOf[o1], w) + Qty(CartOf[o2], w)

\* the outcome of such a race: one creation decremented the stock and the
\* other did not, the counter is at 0, and a creation that failed did so with
\* one of the errors E
LastUnitOutcome(o1, o2, v, E) ==
  /\ hist[o1].decs + hist[o2].decs = 1
  /\ stock[v] = 0
  /\ \A p \in Procs : res[p].kind = "error" => res[p].error \in E

\* C9: when two order creations compete for the last unit of a variant,
\* exactly one decrement succeeds, the other creation fails
\* with an insufficient-stock error, and the final stock is 0.
LastUnitLoserInsufficient ==
  \A o1, o2 \in OrderIds : \A v \in Variants :
    LastUnitRace(o1, o2, v)
      => LastUnitOutcome(o1, o2, v, {"InsufficientStock"})

\* header h carries the HMAC of exactly this body under this key
IsHmacOf(h, key, body) ==
  /\ h.present
  /\ BufferFromBase64(h) = [bytes |-> createHmac(key, body), n |-> DigestLen]

\* what a delivery rejected by the signature check throws
AuthErrors == {"MissingHmac", "InvalidSignature", "RangeError"}

\* C6: a delivery whose signature header is absent or is not the HMAC of the
\* raw body under the shared secret ends at once with an error: its body is
\* not parsed, no handler starts, and no order and no stock counter changes.
UnsignedDeliveryRejected ==
  [][(/\ deliveries' = deliveries + 1
      /\ ~IsHmacOf(lastReq'.hmacHeader, SecretKey, lastReq'.rawBody))
       => /\ \A p \in Procs :
               \/ pc'[p] = pc[p] /\ payload'[p] = payload[p]
               \/ pc'[p] = "done" /\ res'[p].error \in AuthErrors
          /\ \E p \in Procs :
               /\ pc'[p] = "done"
               /\ res'[p].error \in AuthErrors
               /\ payload'[p] = NoPayload
          /\ orders' = orders
          /\ stock' = stock
          /\ hist' = hist]_vars

\* a cancellation signed with another key was rejected and the stored order
\* is still confirmed
BadSignatureRejected ==
  /\ lastReq.rawBody.json.status = "CANCELLED"
  /\ IsHmacOf(lastReq.hmacHeader, OtherKey, lastReq.rawBody)
  /\ pc[1] = "done"
  /\ res[1] = Threw("InvalidSignature")
  /\ Len(orders) = 1
  /\ orders[1].shiprocketOrderId = lastReq.rawBody.json.order_id
  /\ orders[1].orderStatus = "CONFIRMED"

\* the latest delivery passed the signature check
Accepted == ~(pc[1] = "done" /\ res[1].error \in AuthErrors)

\* C7: a delivery passes the signature check only if its header is the HMAC
\* of exactly its raw body under the shared secret; the HMAC of any other
\* body, and the HMAC of the same body under another key, are rejected.
SignatureBindsBodyAndKey ==
  deliveries > 0 =>
    LET h == lastReq.hmacHeader
        b == lastReq.rawBody
    IN  /\ Accepted => IsHmacOf(h, SecretKey, b)
        /\ (\E b2 \in AuthBodies \ {b} : IsHmacOf(h, SecretKey, b2))
             => ~Accepted
        /\ IsHmacOf(h, OtherKey, b) => ~Accepted

\* a body whose bytes differ from the signed ones only in layout was
\* rejected
TamperedBodyRejected ==
  /\ deliveries > 0
  /\ \E f \in Formats \ {lastReq.rawBody.fmt} :
       IsHmacOf(lastReq.hmacHeader, SecretKey,
                RawBody(lastReq.rawBody.json, f))
  /\ pc[1] = "done"
  /\ res[1] = Threw("InvalidSignature")

\* C10: a job all of whose sends failed leaves the queue after its third
\* send and not before; no job is sent more than 3 times.
DroppedAfterThirdFailure ==
  \A r \in removed :
    /\ r.sends <= MAX_ATTEMPTS
    /\ r.fails = r.sends => r.sends = MAX_ATTEMPTS

\* C11: a status-update webhook for a stored order succeeds and sets the
\* order status by shipment_status without regard to case: RTO gives
\* RETURNED, delivered gives DELIVERED, a status outside the table or an
\* absent one gives PROCESSING.
StatusUpdateMapsShipmentStatus ==
  [][\A p \in Procs :
       (pc[p] = "statusUpdate" /\ pc'[p] # "statusUpdate")
         => LET sh == payload[p].shipment_status
            IN  /\ pc'[p] = "done"
                /\ res'[p].kind = "success"
                /\ orders'[ord[p]].orderStatus =
                     CASE sh \in {"RTO", "rto"} -> "RETURNED"
                       [] sh \in {"DELIVERED", "delivered"} -> "DELIVERED"
                       [] sh \in {"LOST", undefined} -> "PROCESSING"
                /\ \A k \in 1..Len(orders) :
                     k # ord[p] => orders'[k] = orders[k]]_vars

\* the order created by a success webhook was updated for shipment status
\* RTO and is RETURNED
OrderReturnedAfterRTO ==
  /\ Quiescent
  /\ deliveries = 2
  /\ \E k \in 1..Len(orders) : orders[k].orderStatus = "RETURNED"
  /\ res[1].kind = "success"

\* C12: once the first and only delivery of a success webhook has completed,
\* every item resolving and the stock covering the cart, exactly one order
\* of that identifier is stored, its status is CONFIRMED, it is the order
\* returned, and each counter is down by exactly the cart's quantity.
FirstSuccessCreatesConfirmed ==
  \A o \in OrderIds :
    (/\ Quiescent
     /\ deliveries = 1
     /\ hist[o].success = 1
     /\ hist[o].cancelled = 0
     /\ Unresolved(CartOf[o]) = {}
     /\ \A v \in Variants : initStock[v] >= Qty(CartOf[o], v))
      => /\ Cardinality(OrdersFor(o)) = 1
         /\ \A k \in OrdersFor(o) :
              /\ orders[k].orderStatus = "CONFIRMED"
              /\ res[1] = Returned("success", k)
         /\ \A v \in Variants :
              stock[v] = initStock[v] - Qty(CartOf[o], v)

\* the two-item order was created by its first delivery
TwoItemOrderCreated ==
  /\ Quiescent
  /\ deliveries = 1
  /\ hist["o2"].success = 1
  /\ OrdersFor("o2") = {1}
  /\ stock["v1"] = initStock["v1"] - 1
  /\ stock["v2"] = initStock["v2"] - 2

\* the edges of the order status state machine
StatusEdges ==
  { <<"CREATED", "CONFIRMED">>, <<"CONFIRMED", "PROCESSING">>,
    <<"PROCESSING", "SHIPPED">>, <<"SHIPPED", "DELIVERED">> }
  \cup { <<s, "CANCELLED">> :
           s \in {"CREATED", "CONFIRMED", "PROCESSING", "SHIPPED"} }

\* C13: every change of a stored order's status follows an edge of
\* CREATED -> CONFIRMED -> PROCESSING -> SHIPPED -> DELIVERED or moves to
\* CANCELLED from a non-terminal status; the status of a DELIVERED or
\* CANCELLED order never changes.
StatusFollowsStateMachine ==
  [][\A k \in 1..Len(orders) :
       orders'[k].orderStatus # orders[k].orderStatus
         => <<orders[k].orderStatus, orders'[k].orderStatus>>
              \in StatusEdges]_vars

RECURSIVE RestoreRoom(_, _)
\* units of variant v that one restore of each of the first k stored orders
\* may add beyond what their creations took
RestoreRoom(v, k) ==
  IF k = 0 THEN 0
  ELSE (1 - hist[orders[k].shiprocketOrderId].decs)
         * QtyFrom(orders[k].items, v, 1)
       + RestoreRoom(v, k - 1)

\* C14: the stock of an order's items is restored at most once: no counter
\* ever exceeds its initial value less what the creations took plus one
\* restore of each stored order.
RestoredAtMostOnce ==
  \A v \in Variants :
    stock[v] <= initStock[v] + RestoreRoom(v, Len(orders))

\* a send settled in this step, and it failed
FailedSendStep == Len(sent') = Len(sent) + 1 /\ ~sent'[Len(sent')].ok

\* C15: a failed send of the head job counts as a failed attempt: its
\* attempt count goes up by one and, while that count is below 3, the job
\* stays at the head to be retried.
FailedSendCountsAsAttempt ==
  [][FailedSendStep
       => (queue[1].attempts + 1 < MAX_ATTEMPTS
             => /\ Len(queue') >= 1
                /\ queue'[1].seq = queue[1].seq
                /\ queue'[1].attempts = queue[1].attempts + 1)]_vars

\* C16: at most one drain loop is ever active, and it is active exactly
\* while the processing flag is set and whenever a job is queued; an
\* addToQueue made while it drains starts no second loop and leaves the
\* running one at its await.
SingleDrainLoop ==
  /\ [](/\ loops <= 1
        /\ processing <=> loops = 1
        /\ loops = 1 <=> awaiting.what # "none"
        /\ Len(queue) > 0 => loops = 1)
  /\ [][(added' = added + 1 /\ processing)
         => (loops' = loops /\ awaiting' = awaiting)]_vars

\* a second job was added while the one loop awaits the send of the first
AddedWhileDraining ==
  /\ Len(queue) = 2
  /\ queue[1].seq = 1
  /\ loops = 1
  /\ processing
  /\ awaiting.what = "send"

\* the k-th job added has left the queue
Left(k) == added - Len(queue) >= k

\* every job added eventually leaves the queue, an empty queue has no drain
\* running, and an addToQueue on an empty queue starts one
EveryJobEventuallyRemoved ==
  /\ \A k \in 1..MaxJobs : (added >= k) ~> Left(k)
  /\ [](Len(queue) = 0 => (~processing /\ loops = 0))
  /\ [][(Len(queue) = 0 /\ added' = added + 1)
         => (processing' /\ loops' = 1)]_vars

\* C17: every job added eventually leaves the queue, and it leaves either
\* after a successful send or after its attempts are exhausted; once the
\* queue is empty no drain is running and the next addToQueue starts one.
EveryJobLeavesDuly ==
  /\ EveryJobEventuallyRemoved
  /\ [](\A r \in removed : r.lastOk \/ r.sends = MAX_ATTEMPTS)

\* C18: the jobs in the queue are always the latest ones added, in the order
\* they were added; every send is of the oldest job not yet removed and
\* is not made before that job's nextRetry; sends follow the order of
\* addition.
HeadOnlyInOrder ==
  /\ [](/\ \A i \in 1..Len(queue) :
             queue[i].seq = added - Len(queue) + i
        /\ \A i \in 1..Len(sent) : sent[i].at >= sent[i].due
        /\ \A i, j \in 1..Len(sent) : i < j => sent[i].seq <= sent[j].seq)
  /\ [][Len(sent') = Len(sent) + 1
         => sent'[Len(sent')].seq = added - Len(queue) + 1]_vars

\* the first job was sent and removed; the second is being sent with the
\* third waiting behind it
JobsLeaveInOrder ==
  /\ Len(sent) = 1
  /\ sent[1].seq = 1
  /\ Len(queue) = 2
  /\ queue[1].seq = 2
  /\ queue[2].seq = 3
  /\ awaiting.what = "send"

\* C19: after a failed send that does not exhaust the job, the job stays at
\* the head with nextRetry set to the current time plus the schedule entry
\* of its attempt number; the schedule is non-decreasing and no send is made
\* before nextRetry.
BackoffScheduled ==
  /\ [][(FailedSendStep /\ queue[1].attempts + 1 < MAX_ATTEMPTS)
         => /\ Len(queue') >= 1
            /\ queue'[1].seq = queue[1].seq
            /\ queue'[1].nextRetry
                 = now + RETRY_DELAYS[queue[1].attempts + 1]]_vars
  /\ [](/\ \A i \in 1..(Len(RETRY_DELAYS) - 1) :
             RETRY_DELAYS[i] <= RETRY_DELAYS[i + 1]
        /\ \A i \in 1..Len(sent) : sent[i].at >= sent[i].due)

\* C20: resolveEventType returns the uppercased event field when the payload
\* has a (non-empty) one, whatever the status and shipment_status; otherwise
\* ORDER_SUCCESS, ORDER_FAILED, ORDER_CANCELLED or ORDER_INITIATED for a
\* status that is SUCCESS, FAILED, CANCELLED or INITIATED in any case;
\* otherwise ORDER_STATUS_UPDATE when shipment_status is present; otherwise
\* UNKNOWN.
EventTypeResolution ==
  pc[1] = "done" =>
    LET pl == lastReq.rawBody.json
    IN  res[1].kind =
          CASE pl.event = "order_success" -> "ORDER_SUCCESS"
            [] pl.event = "ORDER_CANCELLED" -> "ORDER_CANCELLED"
            [] pl.event = "Refund" -> "REFUND"
            [] OTHER ->
                 CASE pl.status \in {"SUCCESS", "success"} -> "ORDER_SUCCESS"
                   [] pl.status = "Failed" -> "ORDER_FAILED"
                   [] pl.status = "cancelled" -> "ORDER_CANCELLED"
                   [] pl.status = "INITIATED" -> "ORDER_INITIATED"
                   [] OTHER -> IF pl.shipment_status = "RTO"
                               THEN "ORDER_STATUS_UPDATE"
                               ELSE "UNKNOWN"

\* a payload with event ORDER_CANCELLED and status SUCCESS was classified by
\* its event
EventWonOverStatus ==
  /\ pc[1] = "done"
  /\ lastReq.rawBody.json.event = "ORDER_CANCELLED"
  /\ lastReq.rawBody.json.status = "SUCCESS"
  /\ res[1].kind = "ORDER_CANCELLED"

\* the payloads classified as ORDER_INITIATED, as UNKNOWN, or as an event
\* kind no handler exists for
Unhandled(pl) ==
  IF pl.event \notin {undefined, ""}
  THEN pl.event \notin {"order_success", "ORDER_SUCCESS", "ORDER_FAILED",
                        "ORDER_CANCELLED", "ORDER_STATUS_UPDATE"}
  ELSE \/ pl.status = "INITIATED"
       \/ /\ pl.status \notin {"SUCCESS", "success", "FAILED", "CANCELLED"}
          /\ pl.shipment_status \in {undefined, ""}

\* C21: a verified webhook classified as ORDER_INITIATED, as UNKNOWN or as
\* an event kind other than the four handled ones is answered at once with
\* an acknowledgement, not an error, and leaves every order and every stock
\* counter as it was.
UnhandledEventAcknowledged ==
  [][( /\ deliveries' = deliveries + 1
       /\ verifyIncomingHMAC(lastReq'.rawBody, lastReq'.hmacHeader) = "ok"
       /\ Unhandled(lastReq'.rawBody.json) )
     => /\ pc'[1] = "done"
        /\ res'[1].error = "none"
        /\ res'[1].kind \in {"acknowledged", "ignored"}
        /\ orders' = orders
        /\ stock' = stock]_vars

\* with an order stored, a signed webhook of event kind Refund was ignored
UnknownEventIgnoredWithOrders ==
  /\ pc[1] = "done"
  /\ Len(orders) = 1
  /\ lastReq.rawBody.json.event = "Refund"
  /\ res[1].kind = "ignored"

\* the cart has an item that names no catalog variant, or a variant whose
\* parent product is not stored
HasUnresolvedItem(cart) ==
  \E i \in 1..Len(cart) :
    \/ cart[i].variant_id \notin {"sv1", "sv2"}
    \/ cart[i].variant_id = "sv1" /\ "p1" \notin products
    \/ cart[i].variant_id = "sv2" /\ "p2" \notin products

\* C22: a success webhook for an order not yet stored, with a cart item at
\* any position whose variant_id matches no catalog variant or whose
\* variant's parent product is missing, fails with NotFound at the item
\* resolution and from its receipt to that failure changes no order and no
\* stock counter; no order of that identifier is stored afterwards.
UnresolvedItemFailsCleanly ==
  /\ [][( /\ pc[1] = "lookup"
          /\ pc'[1] # "lookup"
          /\ getOrderByShiprocketId(payload[1].order_id) = 0
          /\ HasUnresolvedItem(payload[1].cart_data) )
        => /\ pc'[1] = "done"
           /\ res'[1] = Threw("NotFoundError")
           /\ orders' = orders
           /\ stock' = stock]_vars
  /\ [][pc'[1] = "lookup" => orders' = orders /\ stock' = stock]_vars
  /\ [](( /\ pc[1] = "done"
          /\ res[1] = Threw("NotFoundError") )
        => /\ HasUnresolvedItem(lastReq.rawBody.json.cart_data)
           /\ OrdersFor(lastReq.rawBody.json.order_id) = {})

\* with an order stored and stock taken, a cart whose first item resolves and
\* whose second item has lost its parent product was refused with NotFound
SecondItemUnresolved ==
  /\ pc[1] = "done"
  /\ res[1] = Threw("NotFoundError")
  /\ Len(orders) = 1
  /\ stock # initStock
  /\ LET cart == lastReq.rawBody.json.cart_data
     IN  /\ Len(cart) = 2
         /\ cart[1].variant_id = "sv1"
         /\ cart[2].variant_id = "sv2"
         /\ products = {"p1"}

\* C23: once the confirmation email of an order has been started, the order
\* is stored, its stock is taken, and the call that created it has returned
\* (it is not held at the send), whether the send is still pending, has
\* succeeded or has failed.
EmailNeverHoldsCreation ==
  \A o \in OrderIds :
    mail[o] \in {"pending", "sent", "failed"}
      => /\ OrdersFor(o) # {}
         /\ hist[o].decs = 1
         /\ \A p \in Procs : payload[p].order_id = o => pc[p] # "email"

\* C24: a delivery refused by the signature check, for an absent header, an
\* unequal digest or a digest of another length, fails with an
\* AuthenticationError.
RefusedWithAuthenticationError ==
  (pc[1] = "done" /\ res[1].error \in AuthErrors)
    => ErrorClass(res[1].error) = "AuthenticationError"

\* the value of a money field, 0 when the payload does not carry it
Supplied(x) == IF x = NoAmount THEN 0 ELSE x

\* subtotal - discount - prepaidDiscount + shippingCharges + tax of the
\* payload, the subtotal being subtotal_price if supplied and otherwise the
\* sum of variant price times quantity over the cart
ClaimedComputedTotal(pl) ==
  LET cart == pl.cart_data
      price(i) == IF cart[i].variant_id = "sv1" THEN 100 ELSE 250
      sum == IF Len(cart) = 1 THEN price(1) * cart[1].quantity
             ELSE price(1) * cart[1].quantity + price(2) * cart[2].quantity
      subtotal == IF pl.subtotal_price # NoAmount THEN pl.subtotal_price
                  ELSE sum
  IN  subtotal - Supplied(pl.coupon_discount) - Supplied(pl.prepaid_discount)
        + Supplied(pl.shipping_charges) + 0

\* C25: the order a success webhook persists has the provider's
\* total_amount_payable as its total whenever the payload carries one,
\* however far it is from the computed total, and the computed total when
\* the payload carries none.
ProviderTotalWins ==
  [][Len(orders') = Len(orders) + 1
       => LET pl == payload[1]
          IN  orders'[Len(orders')].pricing.total =
                IF pl.total_amount_payable # NoAmount
                THEN pl.total_amount_payable
                ELSE ClaimedComputedTotal(pl)]_vars

RECURSIVE HeldFrom(_, _)
\* units of variant v in the stored orders from _id k on that are not
\* CANCELLED
HeldFrom(v, k) ==
  IF k > Len(orders) THEN 0
  ELSE (IF orders[k].orderStatus # "CANCELLED"
        THEN QtyFrom(orders[k].items, v, 1) ELSE 0)
         + HeldFrom(v, k + 1)

\* C26: whenever no webhook or service call is in flight, each variant's
\* initial stock minus its current stock equals the quantity of that variant
\* over the stored orders that are not CANCELLED.
StockMatchesLiveOrders ==
  Quiescent => \A v \in Variants : initStock[v] - stock[v] = HeldFrom(v, 1)

\* the payloads the classifier maps to ORDER_SUCCESS
ClassifiedSuccess(pl) ==
  IF pl.event \notin {undefined, ""}
  THEN pl.event \in {"order_success", "ORDER_SUCCESS"}
  ELSE pl.status \in {"SUCCESS", "success"}

\* C27: once a verified webhook handled as ORDER_SUCCESS has been answered
\* with a success acknowledgement, an order with the payload's order_id is
\* stored, also when the payload carries an explicit event with a status
\* other than SUCCESS or a status in lower case.
AcknowledgedSuccessHasOrder ==
  ( /\ pc[1] = "done"
    /\ res[1].kind = "success"
    /\ ClassifiedSuccess(lastReq.rawBody.json) )
  => OrdersFor(lastReq.rawBody.json.order_id) # {}

\* p's call is at its first check, on a stored shipment, before the step
\* that the check asks for has been done
OutOfOrder(p) ==
  \/ /\ scall[p].pc = "createShipmentFromOrder"
     /\ scall[p].arg \in 1..Len(corders)
     /\ corders[scall[p].arg].status # "confirmed"
  \/ /\ scall[p].pc = "assignCourierAndGenerateAWB"
     /\ scall[p].arg \in 1..Len(shipments)
     /\ ~shipments[scall[p].arg].shiprocketShipmentId
  \/ /\ scall[p].pc = "schedulePickup"
     /\ scall[p].arg \in 1..Len(shipments)
     /\ ~shipments[scall[p].arg].awb

\* C28: a shipment is created only for a confirmed order and no order has
\* two shipments; a shipment has an AWB only if its Shiprocket order was
\* created, and a pickup only if it has an AWB; a step called out of order
\* fails with BadRequest and changes no shipment and no order.
ShipmentStepsInOrder ==
  /\ [](\A s, t \in 1..Len(shipments) :
          shipments[s].orderId = shipments[t].orderId => s = t)
  /\ [](\A s \in 1..Len(shipments) :
          /\ shipments[s].awb => shipments[s].shiprocketShipmentId
          /\ shipments[s].pickup => shipments[s].awb)
  /\ [][Len(shipments') > Len(shipments)
          => corders[shipments'[Len(shipments')].orderId].status
               = "confirmed"]_vars
  /\ [][\A p \in Procs :
          (OutOfOrder(p) /\ scall'[p] # scall[p])
            => /\ sres'[p] = Threw("BadRequestError")
               /\ shipments' = shipments
               /\ corders' = corders]_vars

\* no active wishlist holds the same product and variant twice
NoDuplicateItems ==
  \A w \in 1..Len(wishlists) :
    wishlists[w].isActive =>
      \A i, j \in 1..Len(wishlists[w].items) :
        wishlists[w].items[i] = wishlists[w].items[j] => i = j

\* p is inside mergeGuestWishlistToUser
Merging(p) ==
  wcall[p].pc \in {"merge_guest", "merge_empty", "merge_delete",
                   "merge_deactivate"}

\* C29: no active wishlist ever holds two items with the same product and
\* the same variant, an absent variant counting as one value; and when
\* mergeGuestWishlistToUser returns, the session has no active wishlist.
WishlistItemsUnique ==
  /\ []NoDuplicateItems
  /\ [][\A p \in Procs :
          (Merging(p) /\ wres'[p].kind = "wishlist")
            => \A w \in 1..Len(wishlists') :
                 wishlists'[w].sessionId = wcall[p].sessionId
                   => ~wishlists'[w].isActive]_vars

\* p is inside the stock loop of cancelOrder or about to mark the order
Cancelling(p) == ocall[p].pc \in {"cancel_find", "cancel_save", "cancel_mark"}

\* p's cancelOrder returns, and it is the only cancellation there has been
SoleCancelReturns(p) ==
  /\ ocall[p].pc = "cancel_mark"
  /\ ocall'[p].pc = "idle"
  /\ ocall[p].arg \in 1..Len(placed)
  /\ \A q \in Procs \ {p} : ~Cancelling(q)
  /\ \A o \in 1..Len(corders) : corders[o].status # "cancelled"

\* p's cancelOrder looks at a stored order that is past cancellation
CancelsTooLate(p) ==
  /\ ocall[p].pc = "cancelOrder"
  /\ ocall'[p] # ocall[p]
  /\ ocall[p].arg \in 1..Len(corders)
  /\ corders[ocall[p].arg].status \notin cancellableStatuses

\* an order past cancellation is refused with BadRequest, the stock untouched
LateCancelRefused ==
  [][\A p \in Procs :
       CancelsTooLate(p)
         => ores'[p] = Threw("BadRequestError") /\ pstock' = pstock]_vars

\* C30: when cancelOrder succeeds on an order made by createOrderFromCart,
\* every colour and size has the stock it had before the order was made; and
\* cancelOrder on an order whose status is not created, payment_pending,
\* payment_failed or confirmed fails with BadRequest and changes no stock.
CancelRestoresStock ==
  /\ [][\A p \in Procs :
          SoleCancelReturns(p) => pstock' = placed[ocall[p].arg].stock]_vars
  /\ LateCancelRefused

====
